---------------------------- MODULE Spec2Model ----------------------------
(***************************************************************************)
(* Concurrent execution layer of the BioSIM web API: one engine handle     *)
(* (BioSimNormalsAndWeatherGeneratorWrapper / Model), the dispatching      *)
(* threads that call doProcess on it, the worker processes running do_job, *)
(* and the updater thread that calls respawn.                              *)
(*                                                                         *)
(* Spec        the handle in multi-process (pooled) mode                   *)
(* SpecSingle  the handle in single-instance mode                          *)
(* SpecLibrary the library of registered results (TeleIODictList register, *)
(*             get and remove of trunk/biosim/bsrequest.py)                *)
(* SpecSpans   the year spans of a weather generation request              *)
(*             (Server.processRequest, doesThisContextMatch, getBounds)    *)
(* SpecEpochs  the same, for a list of three overlapping epochs            *)
(* SpecModel   the construction and the use of a multi-process Model       *)
(*             (do_job, Model.__init__, Model.doProcess of bsmodel.py)     *)
(* SpecMerge   the merge of the results of the spans of a request          *)
(*             (TeleIODictList.add, TeleIODict.__merge__)                  *)
(* SpecLive    the pooled handle when no engine call raises, with the      *)
(*             fairness of the threads, of the workers and of respawn      *)
(* SpecUpdater the daily updater (do_job_thread, do_job_process and        *)
(*             CurrentDailyHandler of biosim/bsserver.py, bssettings.py)   *)
(* SpecCatalog the year spans over the wrapper lists of the server         *)
(*             (Server.__init__, getWrapperForWeatherGeneration)           *)
(* SpecRoutes  the routes biosimWG, biosimModel and biosimModelEphemeral   *)
(*             of biosim/bsflaskroutes.py on the library                   *)
(*                                                                         *)
(* The definitions follow trunk/biosim/bswrappers.py.  Model.doProcess and *)
(* do_job of biosim/bsmodel.py and trunk/biosim/bsmodel.py have the same   *)
(* lock / put loop / get loop / rebuild structure; their workers also end  *)
(* without a reply when the engine call raises (break, or the TypeError of *)
(* tasks_that_are_done(error) inside the except clause).                   *)
(*                                                                         *)
(* A dispatching thread that is not inside doProcess stands at the entry   *)
(* of its next call; the locals of a call are reset when it returns.       *)
(***************************************************************************)
EXTENDS Integers, Sequences, FiniteSets, TLC

(* ------------------------------ bounds --------------------------------- *)
\* number of dispatching threads (concurrent inbound requests)
NbThreads == 2
\* largest number of locations of one request (bioSimRequest.n)
MaxN == 3

\* number of keys registerTeleIODictList hands out in a run
MaxTicket == 5
\* latest year of the Normals and Daily enums and of the requests
MaxYear == 3

\* largest number of locations of a request whose results are merged
MaxLoc == 2
\* largest number of replications of an output of the engine
MaxRep == 2
\* largest number of spans of a weather generation request
MaxSpans == 4
\* number of midnights the clock passes in a run
MaxDay == 3

(* ------------------------- program constants --------------------------- *)
\* AbstractRequest.maxNumberWgoutInstances, 100000 in the program
maxNumberWgoutInstances == 2
\* length of the longest list getWrapperForWeatherGeneration returns, 13 in
\* the program
nbWrappers == 3
\* Server.nbProcessesForWrappers in multiprocess development mode
NbProcesses == 2

Threads == 1..NbThreads
Workers == 0..(NbProcesses - 1)
\* the pool the handle refers to and the replacement pool respawn builds: the
\* Process list and the two Queue objects of a pool are unreachable once
\* respawn has terminated it, so its slot is taken by the next replacement
Gens == {0, 1}
\* value of the lock when no thread holds it, and the id of the updater thread
Free == 0
Updater == NbThreads + 1
NoTask == [natOrd |-> -1, request |-> <<0, 0>>]

VARIABLES
  lock,            \* self.lock: Free or the id of the holder
  processes,       \* self.processes: the pool generation the list refers to
  tasksToDo,       \* self.tasksToDo: the generation of the submit queue
  tasksDone,       \* self.tasksDone: the generation of the complete queue
  todo,            \* content of the submit Queue of every generation
  done,            \* content of the complete Queue of every generation
  wstate,          \* position of every worker process in do_job
  wtask,           \* the task a worker took from the submit queue
  pc,              \* position of every dispatching thread in doProcess
  n,               \* bioSimRequest.n of the thread's request
  i,               \* loop index of the thread in doProcess
  mainDict,        \* local mainDict of the thread
  reordered,       \* TRUE when a reply was dequeued out of natural order
  acqPool,         \* the pool self.tasksToDo referred to when the thread took the lock
  acqInSpawn,      \* TRUE when the thread took the lock while respawn was
                   \* starting the replacement pool
  rpc,             \* position of the updater thread in respawn
  rj,              \* loop index of the updater thread
  newGen,          \* local processes/tasksToDo/tasksDone of respawn
  formerProcesses, \* local formerProcesses of respawn
  WG,              \* self.WG: the engine instance of a single-instance handle
  newWG,           \* local WG of respawn, single-instance branch
  teleIODictList,  \* single-instance mode: local teleIODictList of the thread
  lastCaller,      \* single-instance mode: the thread of the latest engine call
  library,         \* AbstractRequest.library: the entries [key, obj] of the
                   \* OrderedDict, first position first
  ticketNumber,    \* TeleIODictList.ticketNumber
  libraryLock,     \* the module-level lock of bsrequest.py
  cpc,             \* position of every request thread in its cache operation
  selfLen,         \* registerTeleIODictList: len(self)
  regI,            \* registerTeleIODictList: loop index i
  key,             \* registerTeleIODictList: local key
  outputStr,       \* registerTeleIODictList: the keys of outputStr
  ref,             \* loop variable of remove (ref) and of get (key)
  nRefs,           \* number of references the loop of remove / get has
                   \* gone through
  gotList,         \* getTeleIODictList: local teleIODictList
  errMsg,          \* ModelRequest.checkParmsValues: errMsg
  nbWgouts,        \* biosimMemoryLoad: nbWgouts of the latest call
  recency,         \* history: the keys in the cache, least recently inserted
                   \* or read first
  issued,          \* history: every key registerTeleIODictList has produced
  insertOnly,      \* history: no entry was read or removed so far
  dictFrom,        \* WeatherGeneratorRequest: self.dict.get("from")
  dictTo,          \* WeatherGeneratorRequest: self.dict.get("to")
  source,          \* WeatherGeneratorRequest: self.dict.get("source")
  wrapperList,     \* processRequest: the contexts of wrapperList, in order
  wrapperI,        \* processRequest: number of wrappers the loop went through
  contextDict,     \* WeatherGeneratorRequest: self.contextDict, the entries
                   \* [context, bounds] in insertion order
  spc,             \* position of the weather generation request
  answer,          \* status of the HTTP answer of the route
  jobPc,           \* position of every worker process of the model in do_job
  jobMsg,          \* do_job of the model: msg of innerModel.Initialize
  jobTask,         \* do_job of the model: natOrd of the task the worker took
  modelTasksToDo,  \* Model: content of self.tasksToDo
  modelTasksDone,  \* Model: content of self.tasksDone
  modelPc,         \* position of the thread that constructs and then uses the
                   \* Model
  modelI,          \* Model.__init__ and Model.doProcess: loop index i
  nbLocations,     \* Model.doProcess: nbLocations
  modelMainDict,   \* Model.doProcess: the keys of mainDict
  climateVariableNeeded,
                   \* Model: self.climateVariableNeeded
  defaultParameters,
                   \* Model: self.defaultParameters
  help,            \* Model: self.help
  putHistory,      \* history: every value the workers put before they take a
                   \* task
  heap,            \* the TeleIODict objects that are alive, by identity
  selfList,        \* processRequest: teleIODictList, the identities of its
                   \* elements
  wgl,             \* processRequest: wgl, the identities of its elements
  isEmpty,         \* TeleIODictList.add: local isEmpty
  addI,            \* TeleIODictList.add: number of iterations of the loop
                   \* done
  apc,             \* position of the request thread in processRequest and add
  nbSpans,         \* number of wrappers whose context matched so far
  nbLoc,           \* bioSimRequest.n of the weather generation request
  wellFormed,      \* history: every list added so far has only successes,
                   \* with the header and the number of replications of the
                   \* first list
  clockDay,        \* the day of the year of the clock, time.gmtime().tm_yday
  currentDay,      \* do_job_thread: currentDay
  newCurrentDay,   \* do_job_thread: newCurrentDay
  result,          \* do_job_thread: result
  upc,             \* position of the updater thread in do_job_thread
  currentDaily,    \* CurrentDailyHandler.currentDaily
  updToDo,         \* UpdaterThread: content of self.tasksToDo
  updDone,         \* UpdaterThread: content of self.tasksDone
  ppc,             \* position of the updater process in do_job_process
  dailyFolder      \* do_job_process: dailyFolder

vars == <<lock, processes, tasksToDo, tasksDone, todo, done, wstate, wtask,
          pc, n, i, mainDict, reordered, acqPool, acqInSpawn, rpc, rj, newGen,
          formerProcesses, WG, newWG, teleIODictList, lastCaller, library,
          ticketNumber, libraryLock, cpc, selfLen, regI, key, outputStr, ref,
          nRefs, gotList, errMsg, nbWgouts, recency, issued, insertOnly,
          dictFrom, dictTo, source, wrapperList, wrapperI, contextDict, spc,
          answer, jobPc, jobMsg, jobTask, modelTasksToDo, modelTasksDone,
          modelPc, modelI, nbLocations, modelMainDict, climateVariableNeeded,
          defaultParameters, help, putHistory, heap, selfList, wgl, isEmpty,
          addI, apc, nbSpans, nbLoc, wellFormed,
          clockDay, currentDay, newCurrentDay, result, upc,
          currentDaily, updToDo, updDone, ppc, dailyFolder>>

poolVars == <<processes, tasksToDo, tasksDone, todo, done, wstate, wtask>>
threadVars == <<pc, n, i, mainDict, reordered, acqPool, acqInSpawn>>
respawnVars == <<rpc, rj, newGen, formerProcesses>>
singleVars == <<WG, newWG, teleIODictList, lastCaller>>
libraryVars == <<library, ticketNumber, libraryLock, cpc, selfLen, regI, key,
                 outputStr, ref, nRefs, gotList, errMsg, nbWgouts, recency,
                 issued, insertOnly>>
spanVars == <<dictFrom, dictTo, source, wrapperList, wrapperI, contextDict,
              spc, answer>>
modelVars == <<jobPc, jobMsg, jobTask, modelTasksToDo, modelTasksDone,
               modelPc, modelI, nbLocations, modelMainDict,
               climateVariableNeeded, defaultParameters, help, putHistory>>
mergeVars == <<heap, selfList, wgl, isEmpty, addI, apc, nbSpans, nbLoc,
               wellFormed>>
updaterVars == <<clockDay, currentDay, newCurrentDay, result, upc,
                 currentDaily, updToDo, updDone, ppc, dailyFolder>>
\* the state outside the engine handle
componentVars == <<libraryVars, spanVars, modelVars, mergeVars, updaterVars>>
\* the state of the engine handle
handleVars == <<lock, poolVars, threadVars, respawnVars, singleVars>>

(* ------------------------------ helpers -------------------------------- *)
EmptyDict == [k \in {} |-> NoTask]

\* d[k] = v of a Python dict
DictSet(d, k, v) == [x \in (DOMAIN d) \cup {k} |-> IF x = k THEN v ELSE d[x]]

\* bioSimRequest.parseRequest(i, context): the command string of location i
parseRequest(t, k) == <<t, k>>

\* WG.Generate(request) followed by convertTeleIOToDict, when the engine
\* returns: the output (status, text, metadata) is opaque to the worker and
\* determined by the request it answers; gen is the pool that ran it
Generate(request, g) == [kind |-> "reply", request |-> request, gen |-> g]

\* do_job lines 48-50: the reply gets the natural order of the task
TaggedReply(task, g) ==
  [kind |-> "reply", natOrd |-> task.natOrd,
   request |-> Generate(task.request, g).request, gen |-> g]

\* the message a worker pushes after WG.Initialize
InitMsg(status) == [kind |-> "init", msg |-> status]

\* the replies stored in the order they arrive, not under their natural order
DictKey_arrival(reply, k) == k

\* doProcess line 161: the key under which a dequeued reply is stored
DictKey(reply, k) == reply.natOrd

\* doProcess lines 163-164: the list rebuilt from mainDict in natural order
Reassemble(d, k) == [j \in 1..k |-> d[j - 1]]

(* ------------------------------- Init ---------------------------------- *)
\* no pooled Model is under construction or in service
NoModel ==
  /\ jobPc = <<>> /\ jobMsg = <<>> /\ jobTask = <<>>
  /\ modelTasksToDo = <<>> /\ modelTasksDone = <<>>
  /\ modelPc = "none"
  /\ modelI = 0 /\ nbLocations = 0
  /\ modelMainDict = {}
  /\ climateVariableNeeded = "" /\ defaultParameters = "" /\ help = ""
  /\ putHistory = <<>>

\* no list of results is being merged
NoMerge ==
  /\ heap = <<>>
  /\ selfList = <<>> /\ wgl = <<>>
  /\ isEmpty = FALSE
  /\ addI = 0
  /\ apc = "none"
  /\ nbSpans = 0 /\ nbLoc = 0
  /\ wellFormed = TRUE

\* the updater thread and the updater process as UpdaterThread.__init__
\* (bsserver.py lines 293-300) starts them, on the day the server starts
NoUpdater ==
  /\ clockDay = 0
  /\ currentDay = 0
  /\ newCurrentDay = 0
  /\ result = ""
  /\ upc = "sleep"
  /\ currentDaily = "DailyLatest"
  /\ updToDo = <<>>
  /\ updDone = <<>>
  /\ ppc = "get"
  /\ dailyFolder = ""

\* no weather generation request is under way
NoWeatherRequest ==
  /\ dictFrom = 0 /\ dictTo = 0 /\ source = ""
  /\ wrapperList = <<>>
  /\ wrapperI = 0
  /\ contextDict = <<>>
  /\ spc = "none"
  /\ answer = ""

\* bsrequest.py lines 23, 58-60, 507: the library after the module is
\* imported, and no request thread in a cache operation
InitLibrary ==
  /\ library = <<>>
  /\ ticketNumber = 0
  /\ libraryLock = Free
  /\ cpc = [t \in Threads |-> "idle"]
  /\ selfLen = [t \in Threads |-> 0]
  /\ regI = [t \in Threads |-> 0]
  /\ key = [t \in Threads |-> <<>>]
  /\ outputStr = [t \in Threads |-> <<>>]
  /\ ref = [t \in Threads |-> <<>>]
  /\ nRefs = [t \in Threads |-> 0]
  /\ gotList = [t \in Threads |-> <<>>]
  /\ errMsg = [t \in Threads |-> ""]
  /\ nbWgouts = 0
  /\ recency = <<>>
  /\ issued = {}
  /\ insertOnly = TRUE

\* state after the constructor of a multi-process handle returned: the pool
\* of generation 0 is running and every worker reported Success
InitHandle ==
  /\ lock = Free
  /\ processes = 0 /\ tasksToDo = 0 /\ tasksDone = 0
  /\ todo = [g \in Gens |-> <<>>]
  /\ done = [g \in Gens |-> <<>>]
  /\ wstate = [g \in Gens |->
                 [w \in Workers |-> IF g = 0 THEN "waiting" ELSE "notstarted"]]
  /\ wtask = [g \in Gens |-> [w \in Workers |-> NoTask]]
  /\ pc = [t \in Threads |-> "acquire"]
  /\ n = [t \in Threads |-> 0]
  /\ i = [t \in Threads |-> 0]
  /\ mainDict = [t \in Threads |-> EmptyDict]
  /\ reordered = [t \in Threads |-> FALSE]
  /\ acqPool = [t \in Threads |-> 0]
  /\ acqInSpawn = [t \in Threads |-> FALSE]
  /\ rpc = "idle" /\ rj = 0 /\ newGen = 0 /\ formerProcesses = 0
  /\ WG = 0 /\ newWG = 0
  /\ teleIODictList = [t \in Threads |-> <<>>]
  /\ lastCaller = 0

\* the server after startup, with a multi-process handle
Init ==
  /\ InitHandle
  /\ InitLibrary
  /\ NoWeatherRequest
  /\ NoModel
  /\ NoMerge
  /\ NoUpdater

(* ---------------------- do_job: the worker process --------------------- *)
\* do_job lines 33-41: load the engine, push the message, leave on failure
do_job_initialize(g, w) ==
  /\ wstate[g][w] = "starting"
  /\ \E status \in {"Success", "InitError"} :
       /\ done' = [done EXCEPT ![g] = Append(@, InitMsg(status))]
       /\ wstate' = [wstate EXCEPT ![g][w] =
                       IF status = "Success" THEN "waiting" ELSE "failed"]
  /\ UNCHANGED <<lock, processes, tasksToDo, tasksDone, todo, wtask,
                 threadVars, respawnVars, singleVars,
                 componentVars>>

\* do_job lines 45-47: task = tasks_to_accomplish.get()
do_job_get(g, w) ==
  /\ wstate[g][w] = "waiting"
  /\ todo[g] # <<>>
  /\ wtask' = [wtask EXCEPT ![g][w] = Head(todo[g])]
  /\ todo' = [todo EXCEPT ![g] = Tail(@)]
  /\ wstate' = [wstate EXCEPT ![g][w] = "working"]
  /\ UNCHANGED <<lock, processes, tasksToDo, tasksDone, done, threadVars,
                 respawnVars, singleVars,
                 componentVars>>

\* do_job lines 48-51: the engine returned (with any status); push the reply
do_job_put(g, w) ==
  /\ wstate[g][w] = "working"
  /\ done' = [done EXCEPT ![g] = Append(@, TaggedReply(wtask[g][w], g))]
  /\ wstate' = [wstate EXCEPT ![g][w] = "waiting"]
  /\ wtask' = [wtask EXCEPT ![g][w] = NoTask]
  /\ UNCHANGED <<lock, processes, tasksToDo, tasksDone, todo, threadVars,
                 respawnVars, singleVars,
                 componentVars>>

\* do_job lines 52-54: the engine call raised; except: break; return True.
\* The worker leaves its loop without pushing anything (wtask keeps the task
\* it was handling).
do_job_except(g, w) ==
  /\ wstate[g][w] = "working"
  /\ wstate' = [wstate EXCEPT ![g][w] = "exited"]
  /\ UNCHANGED <<lock, processes, tasksToDo, tasksDone, todo, done, wtask,
                 threadVars, respawnVars, singleVars,
                 componentVars>>

(* ------------------- doProcess, multi-process branch ------------------- *)
\* the batch started without taking the lock
doProcess_acquire_nolock(t) ==
  /\ pc[t] = "acquire"
  /\ \E k \in 1..MaxN : n' = [n EXCEPT ![t] = k]
  /\ pc' = [pc EXCEPT ![t] = "put"]
  /\ i' = [i EXCEPT ![t] = 0]
  /\ acqPool' = [acqPool EXCEPT ![t] = tasksToDo]
  /\ acqInSpawn' = [acqInSpawn EXCEPT ![t] = rpc \in {"start", "handshake"}]
  /\ UNCHANGED <<lock, poolVars, mainDict, reordered, respawnVars,
                 singleVars,
                 componentVars>>

\* doProcess line 152: self.lock.acquire(), by a thread that entered the
\* multi-process branch of doProcess with a request of k locations
doProcess_acquire(t) ==
  /\ pc[t] = "acquire"
  /\ lock = Free
  /\ lock' = t
  /\ \E k \in 1..MaxN : n' = [n EXCEPT ![t] = k]
  /\ pc' = [pc EXCEPT ![t] = "put"]
  /\ i' = [i EXCEPT ![t] = 0]
  /\ acqPool' = [acqPool EXCEPT ![t] = tasksToDo]
  /\ acqInSpawn' = [acqInSpawn EXCEPT ![t] = rpc \in {"start", "handshake"}]
  /\ UNCHANGED <<poolVars, mainDict, reordered, respawnVars,
                 singleVars,
                 componentVars>>

\* doProcess lines 153-157: one iteration of the enqueue loop
doProcess_put(t) ==
  /\ pc[t] = "put"
  /\ todo' = [todo EXCEPT ![tasksToDo] =
                Append(@, [natOrd |-> i[t], request |-> parseRequest(t, i[t])])]
  /\ IF i[t] + 1 < n[t]
       THEN /\ i' = [i EXCEPT ![t] = @ + 1]
            /\ pc' = pc
       ELSE /\ i' = [i EXCEPT ![t] = 0]
            /\ pc' = [pc EXCEPT ![t] = "get"]
  /\ UNCHANGED <<lock, processes, tasksToDo, tasksDone, done, wstate, wtask,
                 n, mainDict, reordered, acqPool, acqInSpawn, respawnVars,
                 singleVars,
                 componentVars>>

\* the dequeue loop with a timeout: it gives up on an empty queue
doProcess_get_timeout(t) ==
  /\ pc[t] = "get"
  /\ IF done[tasksDone] = <<>>
       THEN /\ pc' = [pc EXCEPT ![t] = "release"]
            /\ UNCHANGED <<done, mainDict, reordered, i>>
       ELSE /\ done' = [done EXCEPT ![tasksDone] = Tail(@)]
            /\ mainDict' = [mainDict EXCEPT ![t] =
                   DictSet(@, Head(done[tasksDone]).natOrd, Head(done[tasksDone]))]
            /\ reordered' = [reordered EXCEPT ![t] =
                   @ \/ Head(done[tasksDone]).natOrd # i[t]]
            /\ IF i[t] + 1 < n[t]
                 THEN /\ i' = [i EXCEPT ![t] = @ + 1]
                      /\ pc' = pc
                 ELSE /\ i' = [i EXCEPT ![t] = 0]
                      /\ pc' = [pc EXCEPT ![t] = "release"]
  /\ UNCHANGED <<lock, processes, tasksToDo, tasksDone, todo, wstate, wtask,
                 n, acqPool, acqInSpawn, respawnVars, singleVars,
                 componentVars>>

\* doProcess lines 158-161: one iteration of the dequeue loop; Queue.get()
\* has no timeout and blocks while the queue is empty
doProcess_get(t) ==
  /\ pc[t] = "get"
  /\ done[tasksDone] # <<>>
  /\ done' = [done EXCEPT ![tasksDone] = Tail(@)]
  /\ LET reply == Head(done[tasksDone]) IN
       IF reply.kind # "reply"
         THEN \* teleIOinDict["natOrd"] of a plain string raises TypeError
              /\ pc' = [pc EXCEPT ![t] = "raised"]
              /\ UNCHANGED <<mainDict, reordered, i>>
         ELSE /\ mainDict' = [mainDict EXCEPT ![t] = DictSet(@, DictKey(reply, i[t]), reply)]
              /\ reordered' = [reordered EXCEPT ![t] = @ \/ reply.natOrd # i[t]]
              /\ IF i[t] + 1 < n[t]
                   THEN /\ i' = [i EXCEPT ![t] = @ + 1]
                        /\ pc' = pc
                   ELSE /\ i' = [i EXCEPT ![t] = 0]
                        /\ pc' = [pc EXCEPT ![t] = "release"]
  /\ UNCHANGED <<lock, processes, tasksToDo, tasksDone, todo, wstate, wtask,
                 n, acqPool, acqInSpawn, respawnVars, singleVars,
                 componentVars>>

\* the end of the batch that returns without releasing the lock
doProcess_release_keeplock(t) ==
  /\ pc[t] = "release"
  /\ IF \A k \in 0..(n[t] - 1) : k \in DOMAIN mainDict[t]
       THEN pc' = [pc EXCEPT ![t] = "acquire"]
       ELSE pc' = [pc EXCEPT ![t] = "raised"]
  /\ mainDict' = [mainDict EXCEPT ![t] = EmptyDict]
  /\ n' = [n EXCEPT ![t] = 0]
  /\ reordered' = [reordered EXCEPT ![t] = FALSE]
  /\ acqPool' = [acqPool EXCEPT ![t] = 0]
  /\ acqInSpawn' = [acqInSpawn EXCEPT ![t] = FALSE]
  /\ UNCHANGED <<lock, poolVars, i, respawnVars, singleVars,
                 componentVars>>

\* doProcess lines 162-170: self.lock.release(), then the thread rebuilds the
\* list from its local mainDict and returns it (or raises KeyError). The
\* locals die with the call; the thread comes back with its next request.
doProcess_release(t) ==
  /\ pc[t] = "release"
  /\ lock' = Free
  /\ IF \A k \in 0..(n[t] - 1) : k \in DOMAIN mainDict[t]
       THEN pc' = [pc EXCEPT ![t] = "acquire"]
       ELSE pc' = [pc EXCEPT ![t] = "raised"]
  /\ mainDict' = [mainDict EXCEPT ![t] = EmptyDict]
  /\ n' = [n EXCEPT ![t] = 0]
  /\ reordered' = [reordered EXCEPT ![t] = FALSE]
  /\ acqPool' = [acqPool EXCEPT ![t] = 0]
  /\ acqInSpawn' = [acqInSpawn EXCEPT ![t] = FALSE]
  /\ UNCHANGED <<poolVars, i, respawnVars, singleVars,
                 componentVars>>

(* --------------------- respawn, multi-process branch ------------------- *)
\* the processes of the handle terminated instead of the former ones
TerminateTarget_current == processes

\* the processes respawn terminates at lines 120-121
TerminateTarget == formerProcesses

\* respawn taking the lock before it starts the replacement pool
respawn_call_locked ==
  /\ rpc = "idle"
  /\ lock = Free
  /\ lock' = Updater
  /\ newGen' = 1 - processes
  /\ todo' = [todo EXCEPT ![1 - processes] = <<>>]
  /\ done' = [done EXCEPT ![1 - processes] = <<>>]
  /\ wstate' = [wstate EXCEPT ![1 - processes] = [w \in Workers |-> "notstarted"]]
  /\ wtask' = [wtask EXCEPT ![1 - processes] = [w \in Workers |-> NoTask]]
  /\ rj' = 0
  /\ rpc' = "start"
  /\ UNCHANGED <<processes, tasksToDo, tasksDone, threadVars,
                 formerProcesses, singleVars,
                 componentVars>>

\* respawn lines 104-108: the updater thread enters respawn and creates the
\* two queues of the replacement pool
respawn_call ==
  /\ rpc = "idle"
  /\ newGen' = 1 - processes
  /\ todo' = [todo EXCEPT ![1 - processes] = <<>>]
  /\ done' = [done EXCEPT ![1 - processes] = <<>>]
  /\ wstate' = [wstate EXCEPT ![1 - processes] = [w \in Workers |-> "notstarted"]]
  /\ wtask' = [wtask EXCEPT ![1 - processes] = [w \in Workers |-> NoTask]]
  /\ rj' = 0
  /\ rpc' = "start"
  /\ UNCHANGED <<lock, processes, tasksToDo, tasksDone, threadVars,
                 formerProcesses, singleVars,
                 componentVars>>

\* initializeProcesses lines 91-94: p = Process(...); p.start()
initializeProcesses_start ==
  /\ rpc = "start"
  /\ wstate' = [wstate EXCEPT ![newGen][rj] = "starting"]
  /\ rpc' = "handshake"
  /\ UNCHANGED <<lock, processes, tasksToDo, tasksDone, todo, done, wtask,
                 threadVars, rj, newGen, formerProcesses,
                 singleVars,
                 componentVars>>

\* the handshake without the test of the message
initializeProcesses_get_unchecked ==
  /\ rpc = "handshake"
  /\ done[newGen] # <<>>
  /\ done' = [done EXCEPT ![newGen] = Tail(@)]
  /\ IF rj + 1 < NbProcesses
       THEN /\ rj' = rj + 1
            /\ rpc' = "start"
       ELSE /\ rj' = 0
            /\ rpc' = "acquire"
  /\ UNCHANGED <<lock, processes, tasksToDo, tasksDone, todo, wstate, wtask,
                 threadVars, newGen, formerProcesses, singleVars,
                 componentVars>>

\* initializeProcesses lines 95-98: msg = tasksDone.get(); raise unless Success.
\* The exception leaves respawn, and do_job_thread (bsserver.py lines 253-254)
\* catches it and leaves its loop.
initializeProcesses_get ==
  /\ rpc = "handshake"
  /\ done[newGen] # <<>>
  /\ done' = [done EXCEPT ![newGen] = Tail(@)]
  /\ IF Head(done[newGen]).msg # "Success"
       THEN /\ rpc' = "raised"
            /\ rj' = rj
       ELSE IF rj + 1 < NbProcesses
              THEN /\ rj' = rj + 1
                   /\ rpc' = "start"
              ELSE /\ rj' = 0
                   /\ rpc' = "acquire"
  /\ UNCHANGED <<lock, processes, tasksToDo, tasksDone, todo, wstate, wtask,
                 threadVars, newGen, formerProcesses,
                 singleVars,
                 componentVars>>

\* the references swapped without waiting for the lock
respawn_acquire_nowait ==
  /\ rpc = "acquire"
  /\ rpc' = "swapProcesses"
  /\ UNCHANGED <<lock, poolVars, threadVars, rj, newGen, formerProcesses,
                 singleVars,
                 componentVars>>

\* respawn line 114: self.lock.acquire()
respawn_acquire ==
  /\ rpc = "acquire"
  /\ lock = Free
  /\ lock' = Updater
  /\ rpc' = "swapProcesses"
  /\ UNCHANGED <<poolVars, threadVars, rj, newGen, formerProcesses,
                 singleVars,
                 componentVars>>

\* the swap of the processes that gives the lock back before the queues are
\* swapped
respawn_swapProcesses_release ==
  /\ rpc = "swapProcesses"
  /\ formerProcesses' = processes
  /\ processes' = newGen
  /\ lock' = Free
  /\ rpc' = "swapToDo"
  /\ UNCHANGED <<tasksToDo, tasksDone, todo, done, wstate, wtask,
                 threadVars, rj, newGen, singleVars,
                 componentVars>>

\* respawn lines 115-116: formerProcesses = self.processes; self.processes = processes
respawn_swapProcesses ==
  /\ rpc = "swapProcesses"
  /\ formerProcesses' = processes
  /\ processes' = newGen
  /\ rpc' = "swapToDo"
  /\ UNCHANGED <<lock, tasksToDo, tasksDone, todo, done, wstate, wtask,
                 threadVars, rj, newGen, singleVars,
                 componentVars>>

\* respawn line 117: self.tasksToDo = tasksToDo
respawn_swapToDo ==
  /\ rpc = "swapToDo"
  /\ tasksToDo' = newGen
  /\ rpc' = "swapDone"
  /\ UNCHANGED <<lock, processes, tasksDone, todo, done, wstate, wtask,
                 threadVars, rj, newGen, formerProcesses,
                 singleVars,
                 componentVars>>

\* respawn line 118: self.tasksDone = tasksDone
respawn_swapDone ==
  /\ rpc = "swapDone"
  /\ tasksDone' = newGen
  /\ rpc' = "release"
  /\ UNCHANGED <<lock, processes, tasksToDo, todo, done, wstate, wtask,
                 threadVars, rj, newGen, formerProcesses,
                 singleVars,
                 componentVars>>

\* respawn line 119: self.lock.release()
respawn_release ==
  /\ rpc = "release"
  /\ lock' = Free
  /\ rj' = 0
  /\ rpc' = "terminate"
  /\ UNCHANGED <<poolVars, threadVars, newGen, formerProcesses,
                 singleVars,
                 componentVars>>

\* respawn lines 120-121: one iteration of p.terminate(); after the last one
\* respawn returns
respawn_terminate ==
  /\ rpc = "terminate"
  /\ wstate' = [wstate EXCEPT ![TerminateTarget][rj] = "terminated"]
  /\ IF rj + 1 < NbProcesses
       THEN /\ rj' = rj + 1
            /\ rpc' = rpc
       ELSE /\ rj' = 0
            /\ rpc' = "idle"
  /\ UNCHANGED <<lock, processes, tasksToDo, tasksDone, todo, done, wtask,
                 threadVars, newGen, formerProcesses, singleVars,
                 componentVars>>

(* ------------------------- the pooled handle --------------------------- *)
Next ==
  \/ \E t \in Threads : doProcess_acquire(t)
  \/ \E t \in Threads : doProcess_put(t)
  \/ \E t \in Threads : doProcess_get(t)
  \/ \E t \in Threads : doProcess_release(t)
  \/ \E g \in Gens, w \in Workers : do_job_initialize(g, w)
  \/ \E g \in Gens, w \in Workers : do_job_get(g, w)
  \/ \E g \in Gens, w \in Workers : do_job_put(g, w)
  \/ \E g \in Gens, w \in Workers : do_job_except(g, w)
  \/ respawn_call
  \/ initializeProcesses_start
  \/ initializeProcesses_get
  \/ respawn_acquire
  \/ respawn_swapProcesses
  \/ respawn_swapToDo
  \/ respawn_swapDone
  \/ respawn_release
  \/ respawn_terminate

Spec == Init /\ [][Next]_vars

(* ------------- the pooled handle when no engine call raises ------------ *)
\* the steps of the pooled handle when every call of WG.Generate in do_job
\* (lines 48-49) returns: the except branch of do_job is never taken
NextLive ==
  \/ \E t \in Threads : doProcess_acquire(t)
  \/ \E t \in Threads : doProcess_put(t)
  \/ \E t \in Threads : doProcess_get(t)
  \/ \E t \in Threads : doProcess_release(t)
  \/ \E g \in Gens, w \in Workers : do_job_initialize(g, w)
  \/ \E g \in Gens, w \in Workers : do_job_get(g, w)
  \/ \E g \in Gens, w \in Workers : do_job_put(g, w)
  \/ respawn_call
  \/ initializeProcesses_start
  \/ initializeProcesses_get
  \/ respawn_acquire
  \/ respawn_swapProcesses
  \/ respawn_swapToDo
  \/ respawn_swapDone
  \/ respawn_release
  \/ respawn_terminate

\* a step of the worker process w of pool g
do_job(g, w) ==
  \/ do_job_initialize(g, w)
  \/ do_job_get(g, w)
  \/ do_job_put(g, w)

\* a step of thread t in doProcess
doProcess(t) ==
  \/ doProcess_acquire(t)
  \/ doProcess_put(t)
  \/ doProcess_get(t)
  \/ doProcess_release(t)

\* a step of the updater thread in respawn, once it called it
respawn ==
  \/ initializeProcesses_start
  \/ initializeProcesses_get
  \/ respawn_acquire
  \/ respawn_swapProcesses
  \/ respawn_swapToDo
  \/ respawn_swapDone
  \/ respawn_release
  \/ respawn_terminate

\* the scheduling of the processes and threads: a worker process that can
\* take a task or has the answer of the engine does so, a thread inside
\* doProcess or respawn that can take its next step does so, and a thread
\* blocked in lock.acquire() or Queue.get() returns when the lock stays free
\* or the queue stays non-empty. threading.Lock does not say which of the
\* waiting threads gets a lock that was released, so the fairness of the
\* acquisitions is weak. Nothing makes the updater call respawn.
Fairness ==
  /\ \A g \in Gens, w \in Workers : WF_vars(do_job(g, w))
  /\ \A t \in Threads : WF_vars(doProcess(t))
  /\ WF_vars(respawn)

SpecLive == Init /\ [][NextLive]_vars /\ Fairness

(* ---------------------- the single-instance handle --------------------- *)
\* state after the constructor of a single-instance handle returned (lines
\* 80-87): self.WG is an initialized engine, there is no pool and no queue
InitSingle ==
  /\ lock = Free
  /\ processes = 0 /\ tasksToDo = 0 /\ tasksDone = 0
  /\ todo = [g \in Gens |-> <<>>]
  /\ done = [g \in Gens |-> <<>>]
  /\ wstate = [g \in Gens |-> [w \in Workers |-> "notstarted"]]
  /\ wtask = [g \in Gens |-> [w \in Workers |-> NoTask]]
  /\ pc = [t \in Threads |-> "enter"]
  /\ n = [t \in Threads |-> 0]
  /\ i = [t \in Threads |-> 0]
  /\ mainDict = [t \in Threads |-> EmptyDict]
  /\ reordered = [t \in Threads |-> FALSE]
  /\ acqPool = [t \in Threads |-> 0]
  /\ acqInSpawn = [t \in Threads |-> FALSE]
  /\ rpc = "idle" /\ rj = 0 /\ newGen = 0 /\ formerProcesses = 0
  /\ WG = 0 /\ newWG = 0
  /\ teleIODictList = [t \in Threads |-> <<>>]
  /\ lastCaller = 0
  /\ InitLibrary
  /\ NoWeatherRequest
  /\ NoModel
  /\ NoMerge
  /\ NoUpdater

\* doProcess lines 148-150, 165: a thread enters the single-instance branch
\* with a request of k locations; no lock is taken
doProcessSingle_enter(t) ==
  /\ pc[t] = "enter"
  /\ \E k \in 1..MaxN : n' = [n EXCEPT ![t] = k]
  /\ i' = [i EXCEPT ![t] = 0]
  /\ teleIODictList' = [teleIODictList EXCEPT ![t] = <<>>]
  /\ pc' = [pc EXCEPT ![t] = "generate"]
  /\ UNCHANGED <<lock, poolVars, mainDict, reordered, acqPool, acqInSpawn,
                 respawnVars, WG, newWG, lastCaller, componentVars>>

\* what self.WG.Generate returns: a status and a text whose first line, the
\* header, is a list of fields; the text of an output that is not a success
\* has the header of the data or is empty
GenerateOutputs ==
  {[msg |-> "Success", header |-> <<"Year", "Tair">>],
   [msg |-> "EngineError", header |-> <<"Year", "Tair">>],
   [msg |-> "EngineError", header |-> <<"">>]}

\* TeleIODict.__parseText__ (bsutility.py lines 187-189):
\* headerFields.index("Year") raises ValueError when no field is "Year"
indexRaises(header) == \A f \in DOMAIN header : header[f] # "Year"

\* doProcess lines 166-169: one iteration, self.WG.Generate(...) on the
\* instance self.WG refers to at that moment and TeleIODict(WGout, ...) on
\* its output; the engine returns an output with a status, or raises; an
\* exception of the engine or of the constructor leaves doProcess
doProcessSingle_generate(t) ==
  /\ pc[t] = "generate"
  /\ lastCaller' = t
  /\ \/ /\ pc' = [pc EXCEPT ![t] = "raised"]
        /\ UNCHANGED <<i, teleIODictList>>
     \/ \E WGout \in GenerateOutputs :
          IF indexRaises(WGout.header)
            THEN /\ pc' = [pc EXCEPT ![t] = "raised"]
                 /\ UNCHANGED <<i, teleIODictList>>
            ELSE /\ teleIODictList' = [teleIODictList EXCEPT ![t] =
                      Append(@, [request |-> parseRequest(t, i[t]),
                                 msg |-> WGout.msg, instance |-> WG])]
                 /\ i' = [i EXCEPT ![t] = @ + 1]
                 /\ pc' = [pc EXCEPT ![t] =
                             IF i[t] + 1 < n[t] THEN "generate" ELSE "return"]
  /\ UNCHANGED <<lock, poolVars, n, mainDict, reordered, acqPool, acqInSpawn,
                 respawnVars, WG, newWG, componentVars>>

\* doProcess line 170: return teleIODictList; the thread comes back with its
\* next request
doProcessSingle_return(t) ==
  /\ pc[t] = "return"
  /\ pc' = [pc EXCEPT ![t] = "enter"]
  /\ n' = [n EXCEPT ![t] = 0]
  /\ i' = [i EXCEPT ![t] = 0]
  /\ teleIODictList' = [teleIODictList EXCEPT ![t] = <<>>]
  /\ UNCHANGED <<lock, poolVars, mainDict, reordered, acqPool, acqInSpawn,
                 respawnVars, WG, newWG, lastCaller, componentVars>>

\* respawn lines 125-129: a new engine instance is created and initialized;
\* raise unless Success (the instance of a replaced engine is unreachable, so
\* the two instances are called 0 and 1)
respawnSingle_initialize ==
  /\ rpc = "idle"
  /\ newWG' = 1 - WG
  /\ \E msg \in {"Success", "InitError"} :
       rpc' = IF msg = "Success" THEN "acquire" ELSE "raised"
  /\ UNCHANGED <<lock, poolVars, threadVars, rj, newGen, formerProcesses, WG,
                 teleIODictList, lastCaller,
                 componentVars>>

\* respawn line 131: self.lock.acquire()
respawnSingle_acquire ==
  /\ rpc = "acquire"
  /\ lock = Free
  /\ lock' = Updater
  /\ rpc' = "assign"
  /\ UNCHANGED <<poolVars, threadVars, rj, newGen, formerProcesses,
                 singleVars,
                 componentVars>>

\* respawn line 132: self.WG = WG
respawnSingle_assign ==
  /\ rpc = "assign"
  /\ WG' = newWG
  /\ rpc' = "release"
  /\ UNCHANGED <<lock, poolVars, threadVars, rj, newGen, formerProcesses,
                 newWG, teleIODictList, lastCaller,
                 componentVars>>

\* respawn line 133: self.lock.release()
respawnSingle_release ==
  /\ rpc = "release"
  /\ lock' = Free
  /\ rpc' = "idle"
  /\ UNCHANGED <<poolVars, threadVars, rj, newGen, formerProcesses,
                 singleVars,
                 componentVars>>

NextSingle ==
  \/ \E t \in Threads : doProcessSingle_enter(t)
  \/ \E t \in Threads : doProcessSingle_generate(t)
  \/ \E t \in Threads : doProcessSingle_return(t)
  \/ respawnSingle_initialize
  \/ respawnSingle_acquire
  \/ respawnSingle_assign
  \/ respawnSingle_release

SpecSingle == InitSingle /\ [][NextSingle]_vars

(* ------------------------- the reference library ----------------------- *)
\* str(int) of a non-negative integer: its decimal digits, first digit first
RECURSIVE str(_)
str(k) == IF k < 10 THEN <<k>> ELSE str(k \div 10) \o <<k % 10>>

\* the TeleIODict of location j in the list a thread registers
TeleIODict(j) == [location |-> j]

\* the references a client can send: the keys the server can have issued and
\* a token it never issues
Refs == {str(k) : k \in 0..(MaxTicket - 1)} \cup {<<0, 0>>}

\* OrderedDict.__contains__
contains(lib, k) == \E j \in DOMAIN lib : lib[j].key = k

\* OrderedDict.__setitem__: a new key goes to the last position, an existing
\* key keeps its position and takes the new object
setitem(lib, k, obj) ==
  IF contains(lib, k)
  THEN [j \in DOMAIN lib |-> IF lib[j].key = k THEN [key |-> k, obj |-> obj]
                                               ELSE lib[j]]
  ELSE Append(lib, [key |-> k, obj |-> obj])

\* OrderedDict.__delitem__ on a key that is there
delitem(lib, k) == SelectSeq(lib, LAMBDA e : e.key # k)

\* OrderedDict.get on a key that is there
getitem(lib, k) == (CHOOSE e \in {lib[j] : j \in DOMAIN lib} : e.key = k).obj

\* OrderedDict.move_to_end(key, last = True)
move_to_end(lib, k) ==
  Append(delitem(lib, k), [key |-> k, obj |-> getitem(lib, k)])

\* history: the key was inserted or read just now / is gone
Touch(r, k) == Append(SelectSeq(r, LAMBDA x : x # k), k)
Forget(r, k) == SelectSeq(r, LAMBDA x : x # k)

\* registerTeleIODictList that enters its loop without taking the lock
registerTeleIODictList_acquire_nolock(t) ==
  /\ cpc[t] = "idle"
  /\ \E k \in 1..MaxN :
       /\ ticketNumber + k <= MaxTicket
       /\ selfLen' = [selfLen EXCEPT ![t] = k]
  /\ regI' = [regI EXCEPT ![t] = 0]
  /\ outputStr' = [outputStr EXCEPT ![t] = <<>>]
  /\ cpc' = [cpc EXCEPT ![t] = "register_loop"]
  /\ UNCHANGED <<handleVars, spanVars, modelVars, mergeVars, updaterVars,
                 library, ticketNumber, libraryLock, key, ref, nRefs, gotList,
                 errMsg, nbWgouts, recency, issued, insertOnly>>

\* registerTeleIODictList line 535 (called by biosimWG, bsflaskroutes.py line
\* 105): lock.acquire() with a list of k TeleIODict instances
registerTeleIODictList_acquire(t) ==
  /\ cpc[t] = "idle"
  /\ libraryLock = Free
  /\ libraryLock' = t
  /\ \E k \in 1..MaxN :
       /\ ticketNumber + k <= MaxTicket
       /\ selfLen' = [selfLen EXCEPT ![t] = k]
  /\ regI' = [regI EXCEPT ![t] = 0]
  /\ outputStr' = [outputStr EXCEPT ![t] = <<>>]
  /\ cpc' = [cpc EXCEPT ![t] = "register_loop"]
  /\ UNCHANGED <<handleVars, spanVars, modelVars, mergeVars, updaterVars,
                 library, ticketNumber, key, ref, nRefs, gotList, errMsg,
                 nbWgouts, recency, issued, insertOnly>>

\* registerTeleIODictList lines 537-538: key = str(TeleIODictList.ticketNumber)
registerTeleIODictList_key(t) ==
  /\ cpc[t] = "register_loop"
  /\ regI[t] < selfLen[t]
  /\ key' = [key EXCEPT ![t] = str(ticketNumber)]
  /\ cpc' = [cpc EXCEPT ![t] = "register_setitem"]
  /\ UNCHANGED <<handleVars, spanVars, modelVars, mergeVars, updaterVars,
                 library, ticketNumber, libraryLock, selfLen, regI, outputStr,
                 ref, nRefs, gotList, errMsg, nbWgouts, recency, issued,
                 insertOnly>>

\* registerTeleIODictList lines 539-544: the entry is stored under the key,
\* the key is added to outputStr and the ticket number is incremented
registerTeleIODictList_setitem(t) ==
  /\ cpc[t] = "register_setitem"
  /\ library' = setitem(library, key[t], TeleIODict(regI[t]))
  /\ outputStr' = [outputStr EXCEPT ![t] = Append(@, key[t])]
  /\ ticketNumber' = ticketNumber + 1
  /\ regI' = [regI EXCEPT ![t] = @ + 1]
  /\ recency' = Touch(recency, key[t])
  /\ issued' = issued \cup {key[t]}
  /\ cpc' = [cpc EXCEPT ![t] = "register_loop"]
  /\ UNCHANGED <<handleVars, spanVars, modelVars, mergeVars, updaterVars,
                 libraryLock, selfLen, key, ref, nRefs, gotList, errMsg,
                 nbWgouts, insertOnly>>

\* registerTeleIODictList that deletes the entry at the last position when
\* the library is larger than maxNumberWgoutInstances
registerTeleIODictList_evict_last(t) ==
  /\ cpc[t] = "register_loop"
  /\ regI[t] = selfLen[t]
  /\ Len(library) > maxNumberWgoutInstances
  /\ library' = delitem(library, library[Len(library)].key)
  /\ recency' = Forget(recency, library[Len(library)].key)
  /\ UNCHANGED <<handleVars, spanVars, modelVars, mergeVars, updaterVars,
                 ticketNumber, libraryLock, cpc, selfLen, regI, key,
                 outputStr, ref, nRefs, gotList, errMsg, nbWgouts, issued,
                 insertOnly>>

\* registerTeleIODictList lines 545-547: while the library is larger than
\* maxNumberWgoutInstances, the entry at the first position is deleted
registerTeleIODictList_evict(t) ==
  /\ cpc[t] = "register_loop"
  /\ regI[t] = selfLen[t]
  /\ Len(library) > maxNumberWgoutInstances
  /\ library' = delitem(library, library[1].key)
  /\ recency' = Forget(recency, library[1].key)
  /\ UNCHANGED <<handleVars, spanVars, modelVars, mergeVars, updaterVars,
                 ticketNumber, libraryLock, cpc, selfLen, regI, key,
                 outputStr, ref, nRefs, gotList, errMsg, nbWgouts, issued,
                 insertOnly>>

\* registerTeleIODictList that releases the lock without the loop that
\* deletes the entries above maxNumberWgoutInstances
registerTeleIODictList_release_noevict(t) ==
  /\ cpc[t] = "register_loop"
  /\ regI[t] = selfLen[t]
  /\ libraryLock' = Free
  /\ selfLen' = [selfLen EXCEPT ![t] = 0]
  /\ regI' = [regI EXCEPT ![t] = 0]
  /\ key' = [key EXCEPT ![t] = <<>>]
  /\ outputStr' = [outputStr EXCEPT ![t] = <<>>]
  /\ cpc' = [cpc EXCEPT ![t] = "idle"]
  /\ UNCHANGED <<handleVars, spanVars, modelVars, mergeVars, updaterVars,
                 library, ticketNumber, ref, nRefs, gotList, errMsg, nbWgouts,
                 recency, issued, insertOnly>>

\* registerTeleIODictList lines 548-549: lock.release(); return outputStr
registerTeleIODictList_release(t) ==
  /\ cpc[t] = "register_loop"
  /\ regI[t] = selfLen[t]
  /\ Len(library) <= maxNumberWgoutInstances
  /\ libraryLock' = Free
  /\ selfLen' = [selfLen EXCEPT ![t] = 0]
  /\ regI' = [regI EXCEPT ![t] = 0]
  /\ key' = [key EXCEPT ![t] = <<>>]
  /\ outputStr' = [outputStr EXCEPT ![t] = <<>>]
  /\ cpc' = [cpc EXCEPT ![t] = "idle"]
  /\ UNCHANGED <<handleVars, spanVars, modelVars, mergeVars, updaterVars,
                 library, ticketNumber, ref, nRefs, gotList, errMsg, nbWgouts,
                 recency, issued, insertOnly>>

\* removeTeleIODictList line 568 (called by biosimMemoryCleanUp,
\* bsflaskroutes.py lines 50-52): lock.acquire()
removeTeleIODictList_acquire(t) ==
  /\ cpc[t] = "idle"
  /\ libraryLock = Free
  /\ libraryLock' = t
  /\ ref' = [ref EXCEPT ![t] = <<>>]
  /\ nRefs' = [nRefs EXCEPT ![t] = 0]
  /\ cpc' = [cpc EXCEPT ![t] = "remove_loop"]
  /\ UNCHANGED <<handleVars, spanVars, modelVars, mergeVars, updaterVars,
                 library, ticketNumber, selfLen, regI, key, outputStr,
                 gotList, errMsg, nbWgouts, recency, issued, insertOnly>>

\* removeTeleIODictList that deletes without asking whether the reference is
\* in the library: del raises KeyError on a reference that is not there
removeTeleIODictList_del_unchecked(t) ==
  /\ cpc[t] = "remove_loop"
  /\ nRefs[t] < MaxN
  /\ \E r \in Refs :
       /\ ref' = [ref EXCEPT ![t] = r]
       /\ nRefs' = [nRefs EXCEPT ![t] = @ + 1]
       /\ IF contains(library, r)
          THEN /\ library' = delitem(library, r)
               /\ recency' = Forget(recency, r)
               /\ insertOnly' = FALSE
               /\ UNCHANGED cpc
          ELSE /\ cpc' = [cpc EXCEPT ![t] = "raised"]
               /\ UNCHANGED <<library, recency, insertOnly>>
  /\ UNCHANGED <<handleVars, spanVars, modelVars, mergeVars, updaterVars,
                 ticketNumber, libraryLock, selfLen, regI, key, outputStr,
                 gotList, errMsg, nbWgouts, issued>>

\* removeTeleIODictList lines 569-571: one iteration of the loop over the
\* references; a reference that is in the library is deleted
removeTeleIODictList_del(t) ==
  /\ cpc[t] = "remove_loop"
  /\ nRefs[t] < MaxN
  /\ \E r \in Refs :
       /\ ref' = [ref EXCEPT ![t] = r]
       /\ nRefs' = [nRefs EXCEPT ![t] = @ + 1]
       /\ IF contains(library, r)
          THEN /\ library' = delitem(library, r)
               /\ recency' = Forget(recency, r)
               /\ insertOnly' = FALSE
          ELSE UNCHANGED <<library, recency, insertOnly>>
  /\ UNCHANGED <<handleVars, spanVars, modelVars, mergeVars, updaterVars,
                 ticketNumber, libraryLock, cpc, selfLen, regI, key,
                 outputStr, gotList, errMsg, nbWgouts, issued>>

\* removeTeleIODictList line 572: lock.release(); biosimMemoryCleanUp
\* answers "Done"
removeTeleIODictList_release(t) ==
  /\ cpc[t] = "remove_loop"
  /\ libraryLock' = Free
  /\ ref' = [ref EXCEPT ![t] = <<>>]
  /\ nRefs' = [nRefs EXCEPT ![t] = 0]
  /\ cpc' = [cpc EXCEPT ![t] = "idle"]
  /\ UNCHANGED <<handleVars, spanVars, modelVars, mergeVars, updaterVars,
                 library, ticketNumber, selfLen, regI, key, outputStr,
                 gotList, errMsg, nbWgouts, recency, issued, insertOnly>>

\* getTeleIODictList that enters its loop without taking the lock
getTeleIODictList_acquire_nolock(t) ==
  /\ cpc[t] = "idle"
  /\ ref' = [ref EXCEPT ![t] = <<>>]
  /\ nRefs' = [nRefs EXCEPT ![t] = 0]
  /\ gotList' = [gotList EXCEPT ![t] = <<>>]
  /\ cpc' = [cpc EXCEPT ![t] = "get_loop"]
  /\ UNCHANGED <<handleVars, spanVars, modelVars, mergeVars, updaterVars,
                 library, ticketNumber, libraryLock, selfLen, regI, key,
                 outputStr, errMsg, nbWgouts, recency, issued, insertOnly>>

\* getTeleIODictList lines 576-577 (called by ModelRequest.checkParmsValues,
\* line 347, for the route biosimModel): lock.acquire()
getTeleIODictList_acquire(t) ==
  /\ cpc[t] = "idle"
  /\ libraryLock = Free
  /\ libraryLock' = t
  /\ ref' = [ref EXCEPT ![t] = <<>>]
  /\ nRefs' = [nRefs EXCEPT ![t] = 0]
  /\ gotList' = [gotList EXCEPT ![t] = <<>>]
  /\ cpc' = [cpc EXCEPT ![t] = "get_loop"]
  /\ UNCHANGED <<handleVars, spanVars, modelVars, mergeVars, updaterVars,
                 library, ticketNumber, selfLen, regI, key, outputStr, errMsg,
                 nbWgouts, recency, issued, insertOnly>>

\* getTeleIODictList that returns the object it finds and leaves it at its
\* position in the library
getTeleIODictList_get_nomove(t) ==
  /\ cpc[t] = "get_loop"
  /\ nRefs[t] < MaxN
  /\ \E k \in Refs :
       /\ ref' = [ref EXCEPT ![t] = k]
       /\ nRefs' = [nRefs EXCEPT ![t] = @ + 1]
       /\ IF contains(library, k)
          THEN /\ gotList' = [gotList EXCEPT ![t] = Append(@, getitem(library, k))]
               /\ recency' = Touch(recency, k)
               /\ insertOnly' = FALSE
               /\ UNCHANGED library
          ELSE UNCHANGED <<library, gotList, recency, insertOnly>>
  /\ UNCHANGED <<handleVars, spanVars, modelVars, mergeVars, updaterVars,
                 ticketNumber, libraryLock, cpc, selfLen, regI, key,
                 outputStr, errMsg, nbWgouts, issued>>

\* getTeleIODictList lines 578-582: one iteration of the loop over the keys;
\* an object that is found is moved to the last position and appended to the
\* result, a key that is not found is passed over
getTeleIODictList_get(t) ==
  /\ cpc[t] = "get_loop"
  /\ nRefs[t] < MaxN
  /\ \E k \in Refs :
       /\ ref' = [ref EXCEPT ![t] = k]
       /\ nRefs' = [nRefs EXCEPT ![t] = @ + 1]
       /\ IF contains(library, k)
          THEN /\ library' = move_to_end(library, k)
               /\ gotList' = [gotList EXCEPT ![t] = Append(@, getitem(library, k))]
               /\ recency' = Touch(recency, k)
               /\ insertOnly' = FALSE
          ELSE UNCHANGED <<library, gotList, recency, insertOnly>>
  /\ UNCHANGED <<handleVars, spanVars, modelVars, mergeVars, updaterVars,
                 ticketNumber, libraryLock, cpc, selfLen, regI, key,
                 outputStr, errMsg, nbWgouts, issued>>

\* getTeleIODictList lines 583-584, checkParmsValues lines 348-352 and
\* biosimModel (bsflaskroutes.py lines 157-171): lock.release(); the list is
\* returned, it is a list and never None, so errMsg stays as it was; the
\* list becomes self.teleIODictList of the request, Model.doProcess runs on
\* its len(inputTeleIODictList) entries and the route answers
biosimModel_return(t) ==
  /\ cpc[t] = "get_loop"
  /\ libraryLock' = Free
  /\ errMsg' = [errMsg EXCEPT ![t] = ""]
  /\ ref' = [ref EXCEPT ![t] = <<>>]
  /\ nRefs' = [nRefs EXCEPT ![t] = 0]
  /\ gotList' = [gotList EXCEPT ![t] = <<>>]
  /\ cpc' = [cpc EXCEPT ![t] = "idle"]
  /\ UNCHANGED <<handleVars, spanVars, modelVars, mergeVars, updaterVars,
                 library, ticketNumber, selfLen, regI, key, outputStr,
                 nbWgouts, recency, issued, insertOnly>>

\* biosimMemoryLoad (trunk/biosim/__main__.py lines 27-31): the length of the
\* library is read and returned, no lock is taken
biosimMemoryLoad(t) ==
  /\ cpc[t] = "idle"
  /\ nbWgouts' = Len(library)
  /\ UNCHANGED <<handleVars, spanVars, modelVars, mergeVars, updaterVars,
                 library, ticketNumber, libraryLock, cpc, selfLen, regI, key,
                 outputStr, ref, nRefs, gotList, errMsg, recency, issued,
                 insertOnly>>

NextLibrary ==
  \/ \E t \in Threads : registerTeleIODictList_acquire(t)
  \/ \E t \in Threads : registerTeleIODictList_key(t)
  \/ \E t \in Threads : registerTeleIODictList_setitem(t)
  \/ \E t \in Threads : registerTeleIODictList_evict(t)
  \/ \E t \in Threads : registerTeleIODictList_release(t)
  \/ \E t \in Threads : removeTeleIODictList_acquire(t)
  \/ \E t \in Threads : removeTeleIODictList_del(t)
  \/ \E t \in Threads : removeTeleIODictList_release(t)
  \/ \E t \in Threads : getTeleIODictList_acquire(t)
  \/ \E t \in Threads : getTeleIODictList_get(t)
  \/ \E t \in Threads : biosimModel_return(t)
  \/ \E t \in Threads : biosimMemoryLoad(t)

SpecLibrary == Init /\ [][NextLibrary]_vars

(* -------------------- the routes of the ephemeral mode ----------------- *)
\* biosimModelEphemeral that registers the first TeleIODict of its list in
\* the library, as biosimWG registers its list
biosimModelEphemeral_storeTeleIODictList_register(t) ==
  /\ cpc[t] = "idle"
  /\ ticketNumber < MaxTicket
  /\ \E k \in 1..MaxN :
       gotList' = [gotList EXCEPT ![t] = [j \in 1..k |-> TeleIODict(j - 1)]]
  /\ library' = setitem(library, str(ticketNumber), TeleIODict(0))
  /\ recency' = Touch(recency, str(ticketNumber))
  /\ issued' = issued \cup {str(ticketNumber)}
  /\ ticketNumber' = ticketNumber + 1
  /\ cpc' = [cpc EXCEPT ![t] = "ephemeral"]
  /\ UNCHANGED <<handleVars, spanVars, modelVars, mergeVars, updaterVars,
                 libraryLock, selfLen, regI, key, outputStr, ref, nRefs,
                 errMsg, nbWgouts, insertOnly>>

\* biosimModelEphemeral (bsflaskroutes.py lines 62-68): a
\* WeatherGeneratorEpheremalRequest is built, doWeatherGeneration returns the
\* list of the TeleIODict instances of its k locations and
\* storeTeleIODictList (bsrequest.py lines 743-744) keeps the list in the
\* request
biosimModelEphemeral_storeTeleIODictList(t) ==
  /\ cpc[t] = "idle"
  /\ \E k \in 1..MaxN :
       gotList' = [gotList EXCEPT ![t] = [j \in 1..k |-> TeleIODict(j - 1)]]
  /\ cpc' = [cpc EXCEPT ![t] = "ephemeral"]
  /\ UNCHANGED <<handleVars, spanVars, modelVars, mergeVars, updaterVars,
                 library, ticketNumber, libraryLock, selfLen, regI, key,
                 outputStr, ref, nRefs, errMsg, nbWgouts, recency, issued,
                 insertOnly>>

\* biosimModelEphemeral (bsflaskroutes.py lines 70-75): doProcessModelRequest
\* (bsserver.py lines 230-233) runs the model on the list of the request and
\* the route answers with its result; the request and its list are dropped
biosimModelEphemeral_return(t) ==
  /\ cpc[t] = "ephemeral"
  /\ gotList' = [gotList EXCEPT ![t] = <<>>]
  /\ cpc' = [cpc EXCEPT ![t] = "idle"]
  /\ UNCHANGED <<handleVars, spanVars, modelVars, mergeVars, updaterVars,
                 library, ticketNumber, libraryLock, selfLen, regI, key,
                 outputStr, ref, nRefs, errMsg, nbWgouts, recency, issued,
                 insertOnly>>

\* the routes that generate weather or run a model: biosimWG registers its
\* list, biosimModel reads the library, biosimModelEphemeral keeps its list
\* in the request
NextRoutes ==
  \/ \E t \in Threads : registerTeleIODictList_acquire(t)
  \/ \E t \in Threads : registerTeleIODictList_key(t)
  \/ \E t \in Threads : registerTeleIODictList_setitem(t)
  \/ \E t \in Threads : registerTeleIODictList_evict(t)
  \/ \E t \in Threads : registerTeleIODictList_release(t)
  \/ \E t \in Threads : getTeleIODictList_acquire(t)
  \/ \E t \in Threads : getTeleIODictList_get(t)
  \/ \E t \in Threads : biosimModel_return(t)
  \/ \E t \in Threads : biosimModelEphemeral_storeTeleIODictList(t)
  \/ \E t \in Threads : biosimModelEphemeral_return(t)

SpecRoutes == Init /\ [][NextRoutes]_vars

(* --------------------------- the year spans ---------------------------- *)
\* the value None of Python: no daily database, no bounds
None == <<>>

Years == 1..MaxYear

\* the Normals and Daily enums: [getInitialDateYr(), getFinalDateYr()]
Intervals == {e \in Years \X Years : e[1] <= e[2]}

\* the contexts a wrapper list is made of: normals only, or a daily database
\* together with the normals of the latest year
Contexts ==
  {[normals |-> e, daily |-> None] : e \in Intervals}
    \cup {[normals |-> <<MaxYear, MaxYear>>, daily |-> d] : d \in Intervals}

\* the lists of 0..m elements of a set
RECURSIVE ListsUpTo(_, _)
ListsUpTo(S, m) ==
  IF m = 0 THEN {<<>>}
  ELSE LET shorter == ListsUpTo(S, m - 1)
       IN  shorter \cup {Append(q, x) : q \in shorter, x \in S}

\* getBounds that returns None when the initial date is below the lower
\* bound and the final date is within the bounds
getBounds_strict(enumVar, initYr, finalYr) ==
  IF initYr > enumVar[2] THEN None
  ELSE IF initYr >= enumVar[1]
       THEN IF finalYr >= enumVar[2] THEN <<initYr, enumVar[2]>>
            ELSE IF finalYr >= enumVar[1] THEN <<initYr, finalYr>>
            ELSE None
       ELSE IF finalYr >= enumVar[2] THEN <<enumVar[1], enumVar[2]>>
            ELSE None

\* Context.getBounds, bssettings.py lines 428-445
getBounds(enumVar, initYr, finalYr) ==
  IF initYr > enumVar[2] THEN None
  ELSE IF initYr >= enumVar[1]
       THEN IF finalYr >= enumVar[2] THEN <<initYr, enumVar[2]>>
            ELSE IF finalYr >= enumVar[1] THEN <<initYr, finalYr>>
            ELSE None
       ELSE IF finalYr >= enumVar[2] THEN <<enumVar[1], enumVar[2]>>
            ELSE IF finalYr >= enumVar[1] THEN <<enumVar[1], finalYr>>
            ELSE None

\* getMatchInThisInterval that takes the normals of the context whatever the
\* source of the request
getMatchInThisInterval_normals(context, initDateYr, finalDateYr, isFromObservation) ==
  getBounds(context.normals, initDateYr, finalDateYr)

\* Context.getMatchInThisInterval, bssettings.py lines 420-425
getMatchInThisInterval(context, initDateYr, finalDateYr, isFromObservation) ==
  LET selectedEnum == IF isFromObservation /\ context.daily # None
                      THEN context.daily
                      ELSE context.normals
  IN  getBounds(selectedEnum, initDateYr, finalDateYr)

\* doesThisContextMatch that sets the initial date to the last date that
\* matches, without adding one
initDateYrOf_same(cd, from) ==
  IF Len(cd) > 0 THEN cd[Len(cd)].bounds[2] ELSE from

\* doesThisContextMatch lines 456-461: the first year that is still asked for
initDateYrOf(cd, from) ==
  IF Len(cd) > 0 THEN cd[Len(cd)].bounds[2] + 1 ELSE from

\* doesThisContextMatch lines 462-466: the bounds of the context for what is
\* left of the request, None when nothing is left or nothing matches
boundsOf(cd, context) ==
  IF initDateYrOf(cd, dictFrom) > dictTo THEN None
  ELSE getMatchInThisInterval(context, initDateYrOf(cd, dictFrom), dictTo,
                              source = "FromObservation")

\* state when the route biosimWG receives a request: the wrapper lists of
\* the server were built at startup and none is empty, the request has a
\* first year, a last year and a source
InitSpans ==
  /\ InitHandle
  /\ InitLibrary
  /\ dictFrom \in Years
  /\ dictTo \in Years
  /\ source \in {"FromNormals", "FromObservation"}
  /\ wrapperList \in ListsUpTo(Contexts, nbWrappers) \ {<<>>}
  /\ wrapperI = 0
  /\ contextDict = <<>>
  /\ spc = "new"
  /\ answer = ""
  /\ NoModel
  /\ NoMerge
  /\ NoUpdater

\* WeatherGeneratorRequest.checkParmsValues lines 391-394 and
\* AbstractRequest.__init__ lines 75-77: a request whose start date is later
\* than its end date raises BioSimRequestException, the route answers 400
checkParmsValues_raise ==
  /\ spc = "new"
  /\ dictFrom > dictTo
  /\ spc' = "answered"
  /\ answer' = "400"
  /\ UNCHANGED <<handleVars, libraryVars, modelVars, mergeVars, updaterVars,
                 dictFrom, dictTo, source, wrapperList, wrapperI,
                 contextDict>>

\* the request is constructed and processRequest (bsserver.py lines 203-209)
\* starts the loop over the wrapper list
processRequest_start ==
  /\ spc = "new"
  /\ dictFrom <= dictTo
  /\ spc' = "loop"
  /\ UNCHANGED <<handleVars, libraryVars, modelVars, mergeVars, updaterVars,
                 dictFrom, dictTo, source, wrapperList, wrapperI, contextDict,
                 answer>>

\* processRequest that keeps the first context that matches and passes
\* over every context after it
processRequest_doesThisContextMatch_first ==
  /\ spc = "loop"
  /\ wrapperI < Len(wrapperList)
  /\ wrapperI' = wrapperI + 1
  /\ LET bounds == boundsOf(contextDict, wrapperList[wrapperI + 1])
     IN  IF bounds # None /\ contextDict = <<>>
         THEN contextDict' =
                Append(contextDict, [context |-> wrapperI + 1, bounds |-> bounds])
         ELSE UNCHANGED contextDict
  /\ UNCHANGED <<handleVars, libraryVars, modelVars, mergeVars, updaterVars,
                 dictFrom, dictTo, source, wrapperList, spc, answer>>

\* processRequest lines 210-214 and doesThisContextMatch lines 455-471: one
\* iteration; a context with bounds is stored in contextDict with them and
\* its wrapper processes the request, the others are passed over
processRequest_doesThisContextMatch ==
  /\ spc = "loop"
  /\ wrapperI < Len(wrapperList)
  /\ wrapperI' = wrapperI + 1
  /\ LET bounds == boundsOf(contextDict, wrapperList[wrapperI + 1])
     IN  IF bounds # None
         THEN contextDict' =
                Append(contextDict, [context |-> wrapperI + 1, bounds |-> bounds])
         ELSE UNCHANGED contextDict
  /\ UNCHANGED <<handleVars, libraryVars, modelVars, mergeVars, updaterVars,
                 dictFrom, dictTo, source, wrapperList, spc, answer>>

\* processRequest line 215 and biosimWG (bsflaskroutes.py lines 100-106): the
\* list is returned as it is, registered, and the route answers 200
processRequest_return ==
  /\ spc = "loop"
  /\ wrapperI = Len(wrapperList)
  /\ spc' = "answered"
  /\ answer' = "200"
  /\ UNCHANGED <<handleVars, libraryVars, modelVars, mergeVars, updaterVars,
                 dictFrom, dictTo, source, wrapperList, wrapperI,
                 contextDict>>

NextSpans ==
  \/ checkParmsValues_raise
  \/ processRequest_start
  \/ processRequest_doesThisContextMatch
  \/ processRequest_return

SpecSpans == InitSpans /\ [][NextSpans]_vars

(* ------------------- a list of three overlapping epochs ----------------- *)
\* the valid intervals of the three epochs, in the order of the list
EpochIntervals == <<<<1941, 1970>>, <<1951, 1980>>, <<1981, 2010>>>>

\* the first and last years of the epochs and years between them
EpochYears == {1941, 1951, 1965, 1970, 1971, 1980, 1981, 1995, 2005, 2010}

\* a context for an interval: its normals alone, or a daily database over the
\* interval together with the latest normals
EpochContexts(e) ==
  {[normals |-> e, daily |-> None],
   [normals |-> EpochIntervals[3], daily |-> e]}

\* state when the route biosimWG receives a request and the wrapper list is
\* made of the three epochs
InitEpochs ==
  /\ InitHandle
  /\ InitLibrary
  /\ dictFrom \in EpochYears
  /\ dictTo \in EpochYears
  /\ source \in {"FromNormals", "FromObservation"}
  /\ wrapperList \in {<<a, b, c>> : a \in EpochContexts(EpochIntervals[1]),
                                   b \in EpochContexts(EpochIntervals[2]),
                                   c \in EpochContexts(EpochIntervals[3])}
  /\ wrapperI = 0
  /\ contextDict = <<>>
  /\ spc = "new"
  /\ answer = ""
  /\ NoModel
  /\ NoMerge
  /\ NoUpdater

SpecEpochs == InitEpochs /\ [][NextSpans]_vars

(* ----------------------- the pooled Model handle ----------------------- *)
\* the positions of the constructing thread once Model.__init__ has returned
InService == {"service", "put", "get"}

\* the values innerModel.GetWeatherVariablesNeeded(), GetDefaultParameters()
\* and Help() of the worker jobId, and what a worker puts for a task
Metadata(kind, jobId) == [kind |-> kind, natOrd |-> -1, jobId |-> jobId]
Output(natOrd, jobId) == [kind |-> "output", natOrd |-> natOrd, jobId |-> jobId]

\* state when Model.__init__ (bsmodel.py lines 62-69) has created the lock
\* and the two queues of a multi-process model and starts its processes
InitModel ==
  /\ InitHandle
  /\ InitLibrary
  /\ NoWeatherRequest
  /\ NoMerge
  /\ NoUpdater
  /\ jobPc = [w \in Workers |-> "notstarted"]
  /\ jobMsg = [w \in Workers |-> ""]
  /\ jobTask = [w \in Workers |-> -1]
  /\ modelTasksToDo = <<>> /\ modelTasksDone = <<>>
  /\ modelPc = "start"
  /\ modelI = 0 /\ nbLocations = 0
  /\ modelMainDict = {}
  /\ climateVariableNeeded = "" /\ defaultParameters = "" /\ help = ""
  /\ putHistory = <<>>

\* do_job that reports the metadata whatever its jobId
reportsMetadata_all(jobId) == TRUE

\* do_job line 32: if jobId == 0
reportsMetadata(jobId) == jobId = 0

\* Model.__init__ lines 70-73: one iteration of the loop that creates and
\* starts the processes; after the last one the constructor reads the queue
Model_init_start ==
  /\ modelPc = "start"
  /\ jobPc' = [jobPc EXCEPT ![modelI] = "initialize"]
  /\ modelI' = modelI + 1
  /\ modelPc' = IF modelI + 1 < NbProcesses THEN "start"
                ELSE "climateVariableNeeded"
  /\ UNCHANGED <<handleVars, libraryVars, spanVars, mergeVars, updaterVars,
                 jobMsg, jobTask, modelTasksToDo, modelTasksDone, nbLocations,
                 modelMainDict, climateVariableNeeded, defaultParameters,
                 help, putHistory>>

\* Model.__init__ lines 74-76: self.tasksDone.get() for the required
\* variables, the default parameters and the help, in that order (the two
\* first are split at "+"); nothing else is looked at and the constructor
\* returns
Model_init_get ==
  /\ modelPc \in {"climateVariableNeeded", "defaultParameters", "help"}
  /\ modelTasksDone # <<>>
  /\ modelTasksDone' = Tail(modelTasksDone)
  /\ climateVariableNeeded' =
       IF modelPc = "climateVariableNeeded" THEN Head(modelTasksDone)
       ELSE climateVariableNeeded
  /\ defaultParameters' =
       IF modelPc = "defaultParameters" THEN Head(modelTasksDone)
       ELSE defaultParameters
  /\ help' = IF modelPc = "help" THEN Head(modelTasksDone) ELSE help
  /\ modelPc' = CASE modelPc = "climateVariableNeeded" -> "defaultParameters"
                  [] modelPc = "defaultParameters" -> "help"
                  [] modelPc = "help" -> "service"
  /\ UNCHANGED <<handleVars, libraryVars, spanVars, mergeVars, updaterVars,
                 jobPc, jobMsg, jobTask, modelTasksToDo, modelI, nbLocations,
                 modelMainDict, putHistory>>

\* do_job lines 29-32: the process creates its engine and initializes it;
\* the process with jobId 0 goes on with the metadata, the others enter the
\* loop whatever msg is
Model_do_job_initialize(w) ==
  /\ jobPc[w] = "initialize"
  /\ \E msg \in {"Success", "InitError"} : jobMsg' = [jobMsg EXCEPT ![w] = msg]
  /\ jobPc' = [jobPc EXCEPT ![w] =
                 IF reportsMetadata(w) THEN "GetWeatherVariablesNeeded" ELSE "get"]
  /\ UNCHANGED <<handleVars, libraryVars, spanVars, mergeVars, updaterVars,
                 jobTask, modelTasksToDo, modelTasksDone, modelPc, modelI,
                 nbLocations, modelMainDict, climateVariableNeeded,
                 defaultParameters, help, putHistory>>

\* do_job lines 33-40: one of the three put of the metadata; after the last
\* one the process enters the loop if msg is "Success" and raises otherwise
Model_do_job_putMetadata(w) ==
  /\ jobPc[w] \in {"GetWeatherVariablesNeeded", "GetDefaultParameters", "Help"}
  /\ modelTasksDone' = Append(modelTasksDone, Metadata(jobPc[w], w))
  /\ putHistory' = Append(putHistory, Metadata(jobPc[w], w))
  /\ jobPc' = [jobPc EXCEPT ![w] =
                 CASE jobPc[w] = "GetWeatherVariablesNeeded" -> "GetDefaultParameters"
                   [] jobPc[w] = "GetDefaultParameters" -> "Help"
                   [] jobPc[w] = "Help" ->
                        IF jobMsg[w] = "Success" THEN "get" ELSE "raised"]
  /\ UNCHANGED <<handleVars, libraryVars, spanVars, mergeVars, updaterVars,
                 jobMsg, jobTask, modelTasksToDo, modelPc, modelI,
                 nbLocations, modelMainDict, climateVariableNeeded,
                 defaultParameters, help>>

\* do_job lines 42-44: inputTeleIODict = tasks_to_accomplish.get()
Model_do_job_get(w) ==
  /\ jobPc[w] = "get"
  /\ modelTasksToDo # <<>>
  /\ jobTask' = [jobTask EXCEPT ![w] = Head(modelTasksToDo)]
  /\ modelTasksToDo' = Tail(modelTasksToDo)
  /\ jobPc' = [jobPc EXCEPT ![w] = "Execute"]
  /\ UNCHANGED <<handleVars, libraryVars, spanVars, mergeVars, updaterVars,
                 jobMsg, modelTasksDone, modelPc, modelI, nbLocations,
                 modelMainDict, climateVariableNeeded, defaultParameters,
                 help, putHistory>>

\* do_job lines 45-51: the engine is executed and the output is put with the
\* natOrd of the task
Model_do_job_put(w) ==
  /\ jobPc[w] = "Execute"
  /\ modelTasksDone' = Append(modelTasksDone, Output(jobTask[w], w))
  /\ jobTask' = [jobTask EXCEPT ![w] = -1]
  /\ jobPc' = [jobPc EXCEPT ![w] = "get"]
  /\ UNCHANGED <<handleVars, libraryVars, spanVars, mergeVars, updaterVars,
                 jobMsg, modelTasksToDo, modelPc, modelI, nbLocations,
                 modelMainDict, climateVariableNeeded, defaultParameters,
                 help, putHistory>>

\* do_job lines 52-53: the engine call raised; tasks_that_are_done(error)
\* calls the queue object, which raises TypeError in the handler, and the
\* process ends without a reply
Model_do_job_except(w) ==
  /\ jobPc[w] = "Execute"
  /\ jobTask' = [jobTask EXCEPT ![w] = -1]
  /\ jobPc' = [jobPc EXCEPT ![w] = "raised"]
  /\ UNCHANGED <<handleVars, libraryVars, spanVars, mergeVars, updaterVars,
                 jobMsg, modelTasksToDo, modelTasksDone, modelPc, modelI,
                 nbLocations, modelMainDict, climateVariableNeeded,
                 defaultParameters, help, putHistory>>

\* Model.doProcess lines 97-102: the thread that uses the model calls
\* doProcess with a request of k locations and takes the lock of the handle
Model_doProcess_acquire ==
  /\ modelPc = "service"
  /\ \E k \in 1..MaxN : nbLocations' = k
  /\ modelI' = 0
  /\ modelMainDict' = {}
  /\ modelPc' = "put"
  /\ UNCHANGED <<handleVars, libraryVars, spanVars, mergeVars, updaterVars,
                 jobPc, jobMsg, jobTask, modelTasksToDo, modelTasksDone,
                 climateVariableNeeded, defaultParameters, help, putHistory>>

\* Model.doProcess lines 103-107: one iteration of the put loop
Model_doProcess_put ==
  /\ modelPc = "put"
  /\ modelTasksToDo' = Append(modelTasksToDo, modelI)
  /\ modelI' = IF modelI + 1 < nbLocations THEN modelI + 1 ELSE 0
  /\ modelPc' = IF modelI + 1 < nbLocations THEN "put" ELSE "get"
  /\ UNCHANGED <<handleVars, libraryVars, spanVars, mergeVars, updaterVars,
                 jobPc, jobMsg, jobTask, modelTasksDone, nbLocations,
                 modelMainDict, climateVariableNeeded, defaultParameters,
                 help, putHistory>>

\* Model.doProcess lines 108-116: one iteration of the get loop; a value
\* that has no natOrd raises; after the last reply the lock is released, the
\* list is rebuilt and returned, and the thread stands at its next call
Model_doProcess_get ==
  /\ modelPc = "get"
  /\ modelTasksDone # <<>>
  /\ modelTasksDone' = Tail(modelTasksDone)
  /\ IF Head(modelTasksDone).kind # "output"
       THEN /\ modelPc' = "raised"
            /\ UNCHANGED <<modelI, nbLocations, modelMainDict>>
       ELSE IF modelI + 1 < nbLocations
         THEN /\ modelMainDict' = modelMainDict \cup {Head(modelTasksDone).natOrd}
              /\ modelI' = modelI + 1
              /\ UNCHANGED <<modelPc, nbLocations>>
         ELSE /\ modelMainDict' = {}
              /\ modelI' = 0
              /\ nbLocations' = 0
              /\ modelPc' = "service"
  /\ UNCHANGED <<handleVars, libraryVars, spanVars, mergeVars, updaterVars,
                 jobPc, jobMsg, jobTask, modelTasksToDo,
                 climateVariableNeeded, defaultParameters, help, putHistory>>

NextModel ==
  \/ Model_init_start
  \/ Model_init_get
  \/ \E w \in Workers : Model_do_job_initialize(w)
  \/ \E w \in Workers : Model_do_job_putMetadata(w)
  \/ \E w \in Workers : Model_do_job_get(w)
  \/ \E w \in Workers : Model_do_job_put(w)
  \/ \E w \in Workers : Model_do_job_except(w)
  \/ Model_doProcess_acquire
  \/ Model_doProcess_put
  \/ Model_doProcess_get

SpecModel == InitModel /\ [][NextModel]_vars

(* -------------------- the merge of the span results -------------------- *)
\* the header lines of the outputs of the engine, as lists of fields
Headers == {<<"Year", "Tair">>, <<"Year", "Prcp">>}

\* a line of data of the output for a span: the lines of distinct spans and
\* of distinct replicates are distinct
Line(span, rep) == [span |-> span, rep |-> rep]

\* TeleIODict.__init__ and __parseText__ (bsrequest.py lines 603-660) on the
\* output for a span: msg, the header, and replist, one string per
\* replicate, a string being the list of its lines; an output that is not a
\* success has the header and no data, which gives one empty string
NewTeleIODict(msg, header, nrep, span) ==
  [msg |-> msg,
   header |-> header,
   replist |-> IF msg = "Success"
               THEN [r \in 1..nrep |-> <<Line(span, r)>>]
               ELSE << <<>> >>]

\* the str += of a line of data that appends the other string twice
iadd_twice(thisRep, thatRep) == thisRep \o thatRep \o thatRep

\* thisRepList[i] += thatRepList[i] (line 715): the concatenation of strings
iadd(thisRep, thatRep) == thisRep \o thatRep

\* the test of __merge__ that never raises
mergeRaises_never(thisRepList, thatRepList) == FALSE

\* TeleIODict.__merge__ lines 710-713: raise unless the two lists have the
\* same number of replications (w is always a TeleIODict)
mergeRaises(thisRepList, thatRepList) == Len(thisRepList) # Len(thatRepList)

\* the loop of __merge__ that takes the replications of w from the last one
mergedRepList_reversed(thisRepList, thatRepList) ==
  [r \in DOMAIN thisRepList |->
     IF Len(thatRepList) + 1 - r \in DOMAIN thatRepList
     THEN iadd(thisRepList[r], thatRepList[Len(thatRepList) + 1 - r])
     ELSE thisRepList[r]]

\* TeleIODict.__merge__ lines 714-715: the loop over the replications
mergedRepList(thisRepList, thatRepList) ==
  [r \in DOMAIN thisRepList |->
     IF r \in DOMAIN thatRepList THEN iadd(thisRepList[r], thatRepList[r])
     ELSE thisRepList[r]]

\* what __parseToJSON__ returns for an object that is not a success: its
\* message and no dictionary
Message(msg) == [msg |-> msg, mainDict |-> <<>>]

\* TeleIODict.__parseToJSON__ (lines 684-697): the message of an object that
\* is not a success; otherwise mainDict: for each replication, its lines,
\* split at "\n" (which gives an empty last line), each paired with the
\* header fields
parseToJSON(d) ==
  IF d.msg = "Success"
  THEN [msg |-> "",
        mainDict |->
          [r \in DOMAIN d.replist |->
             [k \in 1..(Len(d.replist[r]) + 1) |->
                [headerFields |-> d.header,
                 values |-> IF k <= Len(d.replist[r]) THEN <<d.replist[r][k]>>
                            ELSE <<>>]]]]
  ELSE Message(d.msg)

\* state when processRequest (bsserver.py lines 208-209) has created the
\* empty teleIODictList of a weather generation request of 1..MaxLoc
\* locations
InitMerge ==
  /\ InitHandle
  /\ InitLibrary
  /\ NoWeatherRequest
  /\ NoModel
  /\ NoUpdater
  /\ heap = <<>>
  /\ selfList = <<>> /\ wgl = <<>>
  /\ isEmpty = FALSE
  /\ addI = 0
  /\ apc = "loop"
  /\ nbSpans = 0
  /\ nbLoc \in 1..MaxLoc
  /\ wellFormed = TRUE

\* the elements of a list before position j where f holds
Before(f, j) == {m \in DOMAIN f : m < j /\ f[m]}

\* processRequest lines 210-214 and TeleIODictList.add (lines 509-525): the
\* context of the next wrapper matches, wrapper.doProcess returns a list of
\* one new TeleIODict per location, for the header and the number of
\* replications of its outputs, the output of one location at most not
\* being a success, and the list is added. add raises when the
\* lists differ in length; it appends the elements of l as they are to an
\* empty list; otherwise it merges each element of l into the element at the
\* same position, in order, which changes the replist of that element in
\* place, until a merge raises. The list wgl referred to before is not
\* referred to any more.
processRequest_add ==
  /\ apc = "loop"
  /\ nbSpans < MaxSpans
  /\ nbSpans' = nbSpans + 1
  /\ isEmpty' = (Len(selfList) = 0)
  /\ \E header \in Headers, nrep \in 1..MaxRep, failed \in 0..nbLoc :
       LET l == [j \in 1..nbLoc |->
                   NewTeleIODict(IF j = failed THEN "EngineError" ELSE "Success",
                                 header, nrep, nbSpans + 1)]
           self == [j \in DOMAIN selfList |-> heap[selfList[j]]]
           raises == [j \in DOMAIN self |->
                        mergeRaises(self[j].replist, l[j].replist)]
           merged == [j \in DOMAIN self |->
                        IF Before(raises, j + 1) = {}
                        THEN [self[j] EXCEPT !.replist =
                                mergedRepList(@, l[j].replist)]
                        ELSE self[j]]
       IN  /\ wellFormed' =
                (/\ wellFormed
                 /\ failed = 0
                 /\ \A j \in DOMAIN self :
                      /\ self[j].header = header
                      /\ Len(self[j].replist) = nrep)
           /\ IF Len(selfList) = 0
                THEN /\ heap' = l
                     /\ wgl' = [j \in 1..nbLoc |-> j]
                     /\ selfList' = [j \in 1..nbLoc |-> j]
                     /\ addI' = nbLoc
                     /\ apc' = "loop"
                ELSE /\ heap' = merged \o l
                     /\ wgl' = [j \in 1..nbLoc |-> Len(selfList) + j]
                     /\ UNCHANGED selfList
                     /\ addI' = Cardinality({j \in DOMAIN self :
                                               Before(raises, j + 1) = {}})
                     /\ apc' = IF Len(l) # Len(selfList)
                                   \/ Before(raises, Len(self) + 1) # {}
                               THEN "raised" ELSE "loop"
  /\ UNCHANGED <<handleVars, libraryVars, spanVars, modelVars, updaterVars,
                 nbLoc>>

\* processRequest line 215: no wrapper is left, or no other context
\* matches, and the list is returned
processRequest_returnList ==
  /\ apc = "loop"
  /\ apc' = "returned"
  /\ UNCHANGED <<handleVars, libraryVars, spanVars, modelVars, updaterVars,
                 heap, selfList, wgl, isEmpty, addI, nbSpans, nbLoc,
                 wellFormed>>

NextMerge ==
  \/ processRequest_add
  \/ processRequest_returnList

SpecMerge == InitMerge /\ [][NextMerge]_vars

(* --------------------------- the daily updater ------------------------- *)
\* CurrentDailyHandler.getAlternativeCurrentDaily (bssettings.py lines
\* 79-83), on the values of the enum CurrentDaily
getAlternativeCurrentDaily(current) ==
  IF current = "DailyLatest" THEN "DailyLatestAlt" ELSE "DailyLatest"

\* the first five characters of a string of do_job_process, dailyFolder[0:5]
FirstFive(folder) ==
  IF folder \in {"DailyLatest", "DailyLatestAlt"} THEN "Daily" ELSE folder

\* server.weatherGen.get(RCP.PastClimate) as Server.__init__ fills it (lines
\* 121-131): the wrappers of context1..context4, by their daily database and
\* its first and last year (bssettings.py lines 350-353)
listWrapper ==
  <<[daily |-> "CanUSA1900_1950", initDateYr |-> 1900, finalDateYr |-> 1949],
    [daily |-> "CanUSA1950_1980", initDateYr |-> 1950, finalDateYr |-> 1979],
    [daily |-> "CanUSA1980_2020", initDateYr |-> 1980, finalDateYr |-> 2019],
    [daily |-> "CanUSA2020_2021", initDateYr |-> 2020, finalDateYr |-> 2021]>>

\* Daily.getPath (bssettings.py lines 355-360): the folder of the database
\* of a wrapper
getPath(wrapper) ==
  IF wrapper.daily = "CanUSA2020_2021" THEN currentDaily ELSE "Daily"

\* the wrapper do_job_thread respawns (line 252)
respawnTarget == listWrapper[Len(listWrapper)]

\* the server after startup: the handle is the wrapper the updater respawns
InitUpdater ==
  /\ InitHandle
  /\ InitLibrary
  /\ NoWeatherRequest
  /\ NoModel
  /\ NoMerge
  /\ NoUpdater

\* the clock passes midnight (UTC)
midnight ==
  /\ clockDay < MaxDay
  /\ clockDay' = clockDay + 1
  /\ UNCHANGED <<handleVars, libraryVars, spanVars, modelVars, mergeVars,
                 currentDay, newCurrentDay, result, upc, currentDaily,
                 updToDo, updDone, ppc, dailyFolder>>

\* do_job_thread lines 242-247: after time.sleep(3600) the thread reads the
\* day and, when it differs from currentDay, sends the alternative folder to
\* the updater process
do_job_thread_check ==
  /\ upc = "sleep"
  /\ newCurrentDay' = clockDay
  /\ IF currentDay # clockDay
       THEN /\ updToDo' = Append(updToDo,
                                 getAlternativeCurrentDaily(currentDaily))
            /\ upc' = "get"
       ELSE UNCHANGED <<updToDo, upc>>
  /\ UNCHANGED <<handleVars, libraryVars, spanVars, modelVars, mergeVars,
                 clockDay, currentDay, result, currentDaily, updDone, ppc,
                 dailyFolder>>

\* the answer of the updater process taken for "done" whatever it is
do_job_thread_get_unchecked ==
  /\ upc = "get"
  /\ updDone # <<>>
  /\ result' = Head(updDone)
  /\ updDone' = Tail(updDone)
  /\ currentDaily' = getAlternativeCurrentDaily(currentDaily)
  /\ upc' = "respawn"
  /\ UNCHANGED <<handleVars, libraryVars, spanVars, modelVars, mergeVars,
                 clockDay, currentDay, newCurrentDay, updToDo, ppc,
                 dailyFolder>>

\* do_job_thread lines 248-250: result = tasks_that_are_done.get(), which
\* blocks on an empty queue; on "done" toggleCurrentDaily() (bssettings.py
\* lines 75-76); on another answer the iteration ends
do_job_thread_get ==
  /\ upc = "get"
  /\ updDone # <<>>
  /\ result' = Head(updDone)
  /\ updDone' = Tail(updDone)
  /\ IF Head(updDone) = "done"
       THEN /\ currentDaily' = getAlternativeCurrentDaily(currentDaily)
            /\ upc' = "respawn"
       ELSE /\ UNCHANGED currentDaily
            /\ upc' = "sleep"
  /\ UNCHANGED <<handleVars, libraryVars, spanVars, modelVars, mergeVars,
                 clockDay, currentDay, newCurrentDay, updToDo, ppc,
                 dailyFolder>>

\* do_job_thread lines 251-255: respawn() of the last wrapper of the list.
\* Either it returns, the handle then refers to a replacement pool whose
\* workers all reported Success and the former workers are terminated, and
\* currentDay = newCurrentDay; or a worker of the replacement pool does not
\* report Success, initializeProcesses raises (bswrappers.py lines 95-97),
\* the handle is as before, and except: break ends the thread.
do_job_thread_respawn ==
  /\ upc = "respawn"
  /\ newGen' = 1 - processes
  /\ \/ /\ processes' = 1 - processes
        /\ tasksToDo' = 1 - processes
        /\ tasksDone' = 1 - processes
        /\ formerProcesses' = processes
        /\ wstate' = [g \in Gens |->
                        [w \in Workers |->
                           IF g = processes THEN "terminated" ELSE "waiting"]]
        /\ currentDay' = newCurrentDay
        /\ upc' = "sleep"
     \/ /\ \E f \in Workers :
             wstate' = [wstate EXCEPT ![1 - processes] =
                          [w \in Workers |->
                             IF w < f THEN "waiting"
                             ELSE IF w = f THEN "failed" ELSE "notstarted"]]
        /\ upc' = "exited"
        /\ UNCHANGED <<processes, tasksToDo, tasksDone, formerProcesses,
                       currentDay>>
  /\ UNCHANGED <<lock, todo, done, wtask, threadVars, rpc, rj, singleVars,
                 libraryVars, spanVars, modelVars, mergeVars, clockDay,
                 newCurrentDay, result, currentDaily, updToDo, updDone, ppc,
                 dailyFolder>>

\* do_job_process line 262: dailyFolder = tasks_to_accomplish.get()
do_job_process_get ==
  /\ ppc = "get"
  /\ updToDo # <<>>
  /\ dailyFolder' = Head(updToDo)
  /\ updToDo' = Tail(updToDo)
  /\ ppc' = "download"
  /\ UNCHANGED <<handleVars, libraryVars, spanVars, modelVars, mergeVars,
                 clockDay, currentDay, newCurrentDay, result, upc,
                 currentDaily, updDone>>

\* do_job_process lines 263-283: for a folder whose name starts with Daily,
\* the download and the extraction into that folder; "done" is put when
\* nothing raised and the message of the exception otherwise
do_job_process_download ==
  /\ ppc = "download"
  /\ \E outcome \in {"done", "Error"} :
       /\ (FirstFive(dailyFolder) # "Daily") => outcome = "done"
       /\ updDone' = Append(updDone, outcome)
  /\ ppc' = "get"
  /\ UNCHANGED <<handleVars, libraryVars, spanVars, modelVars, mergeVars,
                 clockDay, currentDay, newCurrentDay, result, upc,
                 currentDaily, updToDo, dailyFolder>>

NextUpdater ==
  \/ midnight
  \/ do_job_thread_check
  \/ do_job_thread_get
  \/ do_job_thread_respawn
  \/ do_job_process_get
  \/ do_job_process_download

SpecUpdater == InitUpdater /\ [][NextUpdater]_vars

(* ---------------------- the catalog of the server ---------------------- *)
\* the values of rcpDict, bsrequest.py lines 40-41: the RCPs a request can
\* select (RCP45 when it selects none)
rcpDict == {"RCP45", "RCP85"}

\* the values of climModDict, bsrequest.py lines 43-45: the climate models
\* a request can select (RCM4 when it selects none)
climModDict == {"Hadley", "RCM4", "GCM4"}

\* the years a request asks for: those of the catalog, one year before and
\* one year after
RequestYears == 1899..2101

\* a Context of the server: the interval [getInitialDateYr(),
\* getFinalDateYr()] of its Normals with their climate model and RCP, and
\* the interval of its Daily or None
Context(normals, climMod, rcp, daily) ==
  [normals |-> normals, climMod |-> climMod, rcp |-> rcp, daily |-> daily]

\* the Normals of the past climate, bssettings.py lines 304-309, in the
\* order of the list pastClimateNormals, bsserver.py line 52
pastClimateNormals ==
  << <<1951, 1960>>, <<1961, 1970>>, <<1971, 1980>>, <<1981, 1990>>,
     <<1991, 2000>> >>

\* the Normals of a climate model under an RCP, bssettings.py lines 257-302,
\* in the order of the lists hadley45, hadley85, rcm445, rcm485, gcm445 and
\* gcm485, bsserver.py lines 53-71: the six lists have the same years
rcpNormals ==
  << <<2001, 2010>>, <<2011, 2020>>, <<2021, 2030>>, <<2031, 2040>>,
     <<2041, 2050>>, <<2051, 2060>>, <<2061, 2070>>, <<2071, 2080>>,
     <<2081, 2100>> >>

\* the Daily databases, bssettings.py lines 349-353, oldest first
Daily ==
  << <<1900, 1949>>, <<1950, 1979>>, <<1980, 2019>>, <<2020, 2021>> >>

\* self.weatherGen of Server.__init__, bsserver.py lines 115-166: the
\* contexts with daily values context1..context4 for the past climate, the
\* past normals for the climate generation, and the normals of the climate
\* model under the RCP otherwise
weatherGen(rcp, climMod) ==
  IF rcp = "PastClimate"
  THEN << Context(pastClimateNormals[1], "RCM4", "PastClimate", Daily[1]),
          Context(pastClimateNormals[2], "RCM4", "PastClimate", Daily[2]),
          Context(pastClimateNormals[5], "RCM4", "PastClimate", Daily[3]),
          Context(pastClimateNormals[5], "RCM4", "PastClimate", Daily[4]) >>
  ELSE IF rcp = "PastClimateGeneration"
  THEN [k \in DOMAIN pastClimateNormals |->
          Context(pastClimateNormals[k], "RCM4", "PastClimate", None)]
  ELSE [k \in DOMAIN rcpNormals |->
          Context(rcpNormals[k], climMod, rcp, None)]

\* getWrapperForWeatherGeneration that takes the list of the climate
\* generation whatever the source of the request
getWrapperForWeatherGeneration_generation(src, rcp, climMod) ==
  weatherGen("PastClimateGeneration", climMod)
    \o (IF rcp # "PastClimate" THEN weatherGen(rcp, climMod) ELSE <<>>)

\* Server.getWrapperForWeatherGeneration, bsserver.py lines 179-191, with
\* isForceClimateGenerationEnabled, bsrequest.py lines 488-489
getWrapperForWeatherGeneration(src, rcp, climMod) ==
  (IF src = "FromNormals" THEN weatherGen("PastClimateGeneration", climMod)
   ELSE weatherGen("PastClimate", climMod))
    \o (IF rcp # "PastClimate" THEN weatherGen(rcp, climMod) ELSE <<>>)

\* state when the route biosimWG receives a request for observations (the
\* source when the request names none, bsrequest.py lines 397-402) and the
\* wrapper list is the one the server gives for the source, the RCP and the
\* climate model of the request
InitCatalog ==
  /\ InitHandle
  /\ InitLibrary
  /\ dictFrom \in RequestYears
  /\ dictTo \in RequestYears
  /\ source = "FromObservation"
  /\ \E rcp \in rcpDict, climMod \in climModDict :
       wrapperList = getWrapperForWeatherGeneration(source, rcp, climMod)
  /\ wrapperI = 0
  /\ contextDict = <<>>
  /\ spc = "new"
  /\ answer = ""
  /\ NoModel
  /\ NoMerge
  /\ NoUpdater

SpecCatalog == InitCatalog /\ [][NextSpans]_vars

(* ------------------------------ claims --------------------------------- *)
\* the thread has a batch in flight: between lock.acquire() and lock.release()
InFlight(t) == pc[t] \in {"put", "get", "release"}

\* the elements of a sequence
Range(q) == {q[k] : k \in DOMAIN q}

\* the threads whose sub-requests or replies are in the channels of pool g or
\* in the hands of its workers
Owners(g) ==
  {m.request[1] : m \in Range(todo[g])}
    \cup {m.request[1] : m \in {r \in Range(done[g]) : r.kind = "reply"}}
    \cup {wtask[g][w].request[1] : w \in {v \in Workers : wstate[g][v] = "working"}}

\* respawn is between lock.acquire() and lock.release()
Swapping == rpc \in {"swapProcesses", "swapToDo", "swapDone", "release"}

\* respawn is starting the replacement pool and waiting for its messages
Spawning == rpc \in {"start", "handshake"}

\* C1: in pooled mode a batch of K sub-requests returns exactly K results and
\* result i is the reply to sub-request i, whatever the order in which the
\* workers complete and also when K exceeds the number of workers; doProcess
\* never fails on a missing natural order.
C1_OrderedResults ==
  \A t \in Threads :
    /\ pc[t] # "raised"
    /\ pc[t] = "release" =>
         /\ DOMAIN mainDict[t] = 0..(n[t] - 1)
         /\ Len(Reassemble(mainDict[t], n[t])) = n[t]
         /\ \A j \in 1..n[t] :
              /\ Reassemble(mainDict[t], n[t])[j].request = parseRequest(t, j - 1)
              /\ Reassemble(mainDict[t], n[t])[j].natOrd = j - 1

\* a batch larger than the pool whose replies arrived out of natural order
\* has collected all of them
C1_Witness ==
  \E t \in Threads :
    pc[t] = "release" /\ n[t] > NbProcesses /\ n[t] = MaxN /\ reordered[t]

\* C2: two threads calling doProcess on one pooled handle never interleave:
\* the lock is held from the first enqueue to the last dequeue, at most one
\* batch is in flight, and whatever is in the channels, in the workers' hands
\* or dequeued by a batch belongs to the batch that holds the lock.
C2_NoInterleaving ==
  /\ \A t \in Threads : InFlight(t) => lock = t
  /\ Cardinality({t \in Threads : InFlight(t)}) <= 1
  /\ \A t \in Threads : \A k \in DOMAIN mainDict[t] : mainDict[t][k].request[1] = t
  /\ \A g \in Gens : \A t \in Owners(g) : lock = t /\ InFlight(t)

\* one thread has dequeued a reply of its batch while another thread that
\* called doProcess waits for the lock
C2_Witness ==
  \E t, u \in Threads :
    /\ t # u
    /\ pc[t] = "get" /\ DOMAIN mainDict[t] # {}
    /\ pc[u] = "acquire"
    /\ \E w \in Workers : wstate[processes][w] = "working"

\* C4: a rotation that starts while a batch is in flight cannot change the
\* pool and channel references before the batch released the lock: the batch
\* sends to and receives from the pool the handle referred to when it took
\* the lock, and the channels of a pool only carry sub-requests of a batch
\* that took the lock while the handle referred to that pool.
C4_State ==
  /\ \A t \in Threads : InFlight(t) =>
       /\ processes = acqPool[t] /\ tasksToDo = acqPool[t] /\ tasksDone = acqPool[t]
       /\ \A k \in DOMAIN mainDict[t] : mainDict[t][k].gen = acqPool[t]
  /\ \A g \in Gens : \A t \in Owners(g) : InFlight(t) /\ acqPool[t] = g

C4_Step ==
  (processes' # processes \/ tasksToDo' # tasksToDo \/ tasksDone' # tasksDone)
    => \A t \in Threads : ~InFlight(t)

C4_RotationWaitsForBatch == [](C4_State) /\ [][C4_Step]_vars

\* the rotation has its replacement pool ready and waits for the lock while a
\* batch is collecting its replies from the old pool
C4_Witness ==
  /\ rpc = "acquire"
  /\ \E t \in Threads : pc[t] = "get" /\ lock = t /\ DOMAIN mainDict[t] # {}

\* C5: when a worker of the replacement pool fails to initialize, the error
\* is raised to the caller of respawn, the handle still refers to the old
\* pool and no old worker is terminated; the handle never refers to a pool
\* with a worker that has not reported Success.
C5_FailedRotationKeepsOldPool ==
  /\ rpc = "raised" =>
       /\ processes # newGen /\ tasksToDo # newGen /\ tasksDone # newGen
       /\ \A w \in Workers : wstate[processes][w] # "terminated"
  /\ \A g \in Gens :
       ((\E w \in Workers : wstate[g][w] = "failed") /\ done[g] = <<>>)
         => rpc = "raised"
  /\ \A g \in {processes, tasksToDo, tasksDone} : \A w \in Workers :
       wstate[g][w] \notin {"notstarted", "starting", "failed"}

\* the second worker of a replacement pool failed and respawn raised
C5_Witness ==
  /\ rpc = "raised"
  /\ wstate[newGen][0] = "waiting"
  /\ wstate[newGen][1] = "failed"

\* C6: respawn first starts all N replacement workers and receives Success
\* from each, then swaps the pool and both channel references in one
\* critical section under the lock, then terminates the old workers: no
\* worker is terminated before the swap is complete, and only old workers are.
C6_State ==
  /\ (rpc = "acquire" \/ Swapping) =>
       \A w \in Workers : wstate[newGen][w] \in {"waiting", "working"}
  /\ Swapping => lock = Updater
  /\ ~Swapping => (processes = tasksToDo /\ tasksToDo = tasksDone)
  /\ \A g \in Gens : (\E w \in Workers : wstate[g][w] = "terminated") =>
       /\ rpc \in {"terminate", "idle"}
       /\ g # processes /\ g # tasksToDo /\ g # tasksDone
  /\ rpc = "idle" =>
       \/ \A w \in Workers : wstate[1 - processes][w] = "notstarted"
       \/ \A w \in Workers : wstate[1 - processes][w] = "terminated"

C6_Step ==
  (processes' # processes \/ tasksToDo' # tasksToDo \/ tasksDone' # tasksDone)
    => (lock = Updater /\ lock' = Updater)

C6_RespawnOrder == [](C6_State) /\ [][C6_Step]_vars

\* a rotation ran to its end: the handle refers to the replacement pool and
\* every worker of the former pool is terminated
C6_Witness ==
  /\ rpc = "idle"
  /\ processes = 1 /\ tasksToDo = 1 /\ tasksDone = 1
  /\ \A w \in Workers : wstate[0][w] = "terminated"

\* C7: respawn does not hold the lock while it starts the replacement pool
\* and waits for its messages; it holds it only for the swap, so a batch can
\* take the lock in that window and run on the old pool.
C7_LockOnlyForSwap ==
  /\ Spawning => lock # Updater
  /\ lock = Updater <=> Swapping
  /\ \A t \in Threads : (acqInSpawn[t] /\ Spawning) => acqPool[t] = processes

\* a batch that took the lock while respawn was starting the replacement
\* pool has collected all its replies, from the old pool, and respawn is
\* still starting the replacement pool
C7_Witness ==
  \E t \in Threads :
    /\ pc[t] = "release" /\ acqInSpawn[t] /\ Spawning
    /\ DOMAIN mainDict[t] = 0..(n[t] - 1)
    /\ \A k \in DOMAIN mainDict[t] : mainDict[t][k].gen = processes
    /\ processes # newGen

\* the sub-request the worker was handling has a reply in the complete queue
\* or in the mainDict of its batch
Answered(g, w) ==
  \/ \E r \in Range(done[g]) :
       r.kind = "reply" /\ r.request = wtask[g][w].request
         /\ r.natOrd = wtask[g][w].natOrd
  \/ \E t \in Threads : \E k \in DOMAIN mainDict[t] :
       mainDict[t][k].request = wtask[g][w].request

\* C8: a worker whose engine call raised on a sub-request has pushed a reply
\* for it, carrying the natural order of the sub-request.
C8_ErrorStillAnswered ==
  \A g \in Gens : \A w \in Workers : wstate[g][w] = "exited" => Answered(g, w)

\* C9: whatever errors the tasks raised, every worker of the handle's pool is
\* still in its loop, taking sub-requests from the submit queue.
C9_WorkersKeepLooping ==
  \A w \in Workers : wstate[processes][w] \in {"waiting", "working"}

\* a worker left its loop while it was handling a sub-request of the batch of
\* thread t: no reply to that sub-request will arrive
Lost(t) ==
  \E g \in Gens : \E w \in Workers :
    wstate[g][w] = "exited" /\ wtask[g][w].request[1] = t

\* C10: there is no timeout. Once a reply to a sub-request of a batch cannot
\* arrive, the batch stays in its loops and keeps the lock, every thread
\* waiting for the lock keeps waiting, and a rotation waiting for the lock
\* keeps waiting and the references of the handle do not change.
C10_Step ==
  \A t \in Threads : Lost(t) =>
    /\ lock = t /\ lock' = t
    /\ pc[t] \in {"put", "get"} /\ pc'[t] \in {"put", "get"}
    /\ \A u \in Threads \ {t} : pc[u] = "acquire" => pc'[u] = "acquire"
    /\ rpc = "acquire" => rpc' = "acquire"
    /\ ~Swapping /\ rpc' \notin {"swapProcesses", "swapToDo", "swapDone", "release"}
    /\ processes' = processes /\ tasksToDo' = tasksToDo /\ tasksDone' = tasksDone
    /\ Lost(t)'

C10_NoTimeout == [][C10_Step]_vars

\* a batch waits on the empty complete queue for a reply that cannot arrive,
\* nothing is left to do for the workers, another thread waits for the lock
\* and so does a rotation
C10_Witness ==
  \E t \in Threads :
    /\ Lost(t) /\ pc[t] = "get" /\ lock = t
    /\ done[tasksDone] = <<>> /\ todo[tasksToDo] = <<>>
    /\ \A w \in Workers : wstate[processes][w] # "working"
    /\ \E u \in Threads \ {t} : pc[u] = "acquire"
    /\ rpc = "acquire"

\* C3: on a single-instance handle the engine calls of two concurrent batches
\* never alternate: while a batch has made some of its calls and has more to
\* make, the latest engine call on the handle is one of its own.
C3_SingleSerialized ==
  \A t \in Threads : (pc[t] = "generate" /\ i[t] > 0) => lastCaller = t

(* ------------------- claims on the reference library ------------------- *)
\* no request thread is inside registerTeleIODictList, getTeleIODictList or
\* removeTeleIODictList: every operation that was started is completed
NoOperationRunning == \A t \in Threads : cpc[t] = "idle"

\* the keys of the library, first position first
Keys(lib) == [j \in DOMAIN lib |-> lib[j].key]

\* C11: whenever every cache operation that was started has completed, in any
\* sequence and interleaving of the callers, the library holds at most
\* maxNumberWgoutInstances entries.
C11_SizeAtMostMaximum ==
  NoOperationRunning => Len(library) <= maxNumberWgoutInstances

\* more keys than the maximum were registered, a registration that had to
\* delete entries has completed and the library is full
C11_Witness ==
  /\ NoOperationRunning
  /\ ticketNumber > maxNumberWgoutInstances
  /\ Len(library) = maxNumberWgoutInstances

\* the thread is in the loop of registerTeleIODictList that deletes entries
Evicting(t) == cpc[t] = "register_loop" /\ regI[t] = selfLen[t]

\* after registrations only, the library holds the latest
\* maxNumberWgoutInstances keys in the order of their registration
C12_State ==
  (NoOperationRunning /\ insertOnly /\ ticketNumber > maxNumberWgoutInstances)
    => Keys(library) = [j \in 1..maxNumberWgoutInstances |->
                          str(ticketNumber - maxNumberWgoutInstances + j - 1)]

\* a deletion by registerTeleIODictList takes out exactly the entry that was
\* inserted or read the longest time ago
C12_Step ==
  \A t \in Threads : (Evicting(t) /\ library' # library) =>
    /\ recency # <<>>
    /\ contains(library, recency[1])
    /\ library' = delitem(library, recency[1])
    /\ Len(library') = Len(library) - 1

\* C12: registering maxNumberWgoutInstances + 1 entries with no read in
\* between, starting from the empty library, leaves exactly
\* maxNumberWgoutInstances entries and the one deleted is the first one
\* registered; every deletion by registerTeleIODictList removes the entry
\* that was least recently inserted or read.
C12_EvictsLeastRecentlyUsed == []C12_State /\ [][C12_Step]_vars

\* maxNumberWgoutInstances + 1 entries were registered and nothing was read:
\* the entry of key "0" is gone and the others are there
C12_Witness ==
  /\ NoOperationRunning /\ insertOnly
  /\ ticketNumber = maxNumberWgoutInstances + 1
  /\ Len(library) = maxNumberWgoutInstances
  /\ ~contains(library, str(0))
  /\ library[1].key = str(1)

\* position of a key in a sequence of keys, 0 when it is not there
Position(r, k) == IF \E j \in DOMAIN r : r[j] = k
                  THEN CHOOSE j \in DOMAIN r : r[j] = k
                  ELSE 0

\* the thread has just gone through one more key in getTeleIODictList
GetStep(t) == cpc[t] = "get_loop" /\ nRefs'[t] = nRefs[t] + 1

\* a read of a key that is in the library puts its entry at the last position
\* with the object it had, keeps the other entries in their order and appends
\* the object to the list that is returned
C13_Get ==
  \A t \in Threads : (GetStep(t) /\ contains(library, ref'[t])) =>
    /\ Len(library') = Len(library)
    /\ library'[Len(library')] =
         [key |-> ref'[t], obj |-> getitem(library, ref'[t])]
    /\ SubSeq(library', 1, Len(library') - 1) =
         SelectSeq(library, LAMBDA e : e.key # ref'[t])
    /\ gotList'[t] = Append(gotList[t], getitem(library, ref'[t]))

\* an entry that was inserted or read after another entry of the library is
\* not the one that registerTeleIODictList deletes
C13_Evict ==
  \A t \in Threads : (Evicting(t) /\ library' # library) =>
    \A h \in Range(recency) :
      (\E e \in Range(recency) : Position(recency, e) < Position(recency, h))
        => contains(library', h)

\* C13: getTeleIODictList on a key that is in the library moves the entry to
\* the most recent position and returns its object; when the library is full,
\* a key is read and one new entry is registered, the entry deleted is the
\* oldest one that was not read and not the one that was read.
C13_ReadProtectsFromEviction == [][C13_Get /\ C13_Evict]_vars

\* the library was full with the keys "0" and "1", key "0" was read, a third
\* entry was registered and the loop deletes: key "1" stands first
C13_Witness ==
  \E t \in Threads :
    /\ Evicting(t)
    /\ Keys(library) = <<str(1), str(0), str(2)>>

\* the thread has just stored an entry and added its key to outputStr
SetitemStep(t) == cpc[t] = "register_setitem" /\ regI'[t] = regI[t] + 1

\* the key a registration adds to its answer was never produced before
C14_Step ==
  \A t \in Threads : SetitemStep(t) =>
    /\ outputStr'[t] = Append(outputStr[t], key[t])
    /\ key[t] \notin issued
    /\ \A j \in DOMAIN outputStr[t] : outputStr[t][j] # key[t]

\* C14: every key that registerTeleIODictList produces differs from every key
\* produced earlier, also when earlier keys have been deleted from the library
\* by the eviction loop or by removeTeleIODictList, and when registrations
\* run concurrently: the keys produced so far are as many as the tickets.
C14_HandlesAreFresh ==
  [](Cardinality(issued) = ticketNumber) /\ [][C14_Step]_vars

\* a registration has produced the key of the latest ticket after at least
\* two earlier keys were deleted from the library and an entry was read or
\* removed
C14_Witness ==
  \E t \in Threads :
    /\ cpc[t] = "register_loop" /\ regI[t] > 0
    /\ ~insertOnly
    /\ ticketNumber > maxNumberWgoutInstances + 1
    /\ Cardinality({h \in issued : ~contains(library, h)}) >= 2
    /\ outputStr[t][Len(outputStr[t])] = str(ticketNumber - 1)

\* the thread has just gone through one more reference in
\* removeTeleIODictList
RemoveStep(t) == cpc[t] = "remove_loop" /\ nRefs'[t] = nRefs[t] + 1

\* C15: removeTeleIODictList deletes the entry of every listed reference that
\* is in the library and nothing else; a reference that is not in the library
\* is passed over and the loop goes on without error; the entries that stay
\* keep their objects and their relative order.
C15_RemoveFrame ==
  [][\A t \in Threads : RemoveStep(t) =>
       /\ library' = SelectSeq(library, LAMBDA e : e.key # ref'[t])
       /\ Len(library') = IF contains(library, ref'[t]) THEN Len(library) - 1
                                                          ELSE Len(library)
       /\ cpc'[t] = "remove_loop"
       /\ ticketNumber' = ticketNumber]_vars

\* a removal has gone through two references or more, the latest a token
\* that is no key; of the two entries registered one is deleted and the other
\* is still there
C15_Witness ==
  \E t \in Threads :
    /\ cpc[t] = "remove_loop" /\ nRefs[t] >= 2
    /\ ref[t] = <<0, 0>>
    /\ ticketNumber = 2
    /\ Len(library) = 1

\* the thread is inside registerTeleIODictList, getTeleIODictList or
\* removeTeleIODictList
InOperation(t) == cpc[t] # "idle"

\* a thread inside an operation holds the lock, and the library is above
\* maxNumberWgoutInstances only inside a registration
C16_State ==
  /\ \A t \in Threads : InOperation(t) => libraryLock = t
  /\ Len(library) > maxNumberWgoutInstances =>
       \E t \in Threads : libraryLock = t /\ cpc[t] \in {"register_loop", "register_setitem"}

\* an operation keeps the lock from its first step to its last, and only the
\* holder of the lock changes the library and the ticket number
C16_Step ==
  /\ \A t \in Threads : (InOperation(t) /\ cpc'[t] # "idle") => libraryLock' = t
  /\ (library' # library \/ ticketNumber' # ticketNumber) =>
       /\ libraryLock \in Threads /\ libraryLock' = libraryLock
       /\ InOperation(libraryLock)

referenceNotFound == "The wgout object reference is not found in the library!"

\* the thread returns from getTeleIODictList and checkParmsValues, and the
\* route biosimModel answers
ReturnStep(t) == cpc[t] = "get_loop" /\ cpc'[t] = "idle"

\* C17: a model request that names a key that is not in the library (never
\* issued, evicted or removed) leaves checkParmsValues with the message that
\* the reference is not found, and is not processed on the entries that were
\* found.
C17_AbsentHandleRejected ==
  [][\A t \in Threads : (ReturnStep(t) /\ Len(gotList[t]) < nRefs[t]) =>
       errMsg'[t] = referenceNotFound]_vars

(* ----------------------- claims on the year spans ---------------------- *)
\* the interval of years a context is valid for, for the source of the
\* request: its daily database when observations are asked for and it has
\* one, its normals otherwise
ValidInterval(context) ==
  IF source = "FromObservation" /\ context.daily # None THEN context.daily
  ELSE context.normals

\* the years of a span
YearsOf(bounds) == bounds[1]..bounds[2]

\* C18: for a request with from <= to and any wrapper list, the spans stored
\* in contextDict are pairwise disjoint and in strictly ascending order of
\* years, in the order of the wrapper list, and every span [lo, hi] has
\* lo <= hi and lies inside the valid interval of its context and inside
\* [from, to].
C18_SpansDisjointAscending ==
  /\ \A j \in DOMAIN contextDict :
       LET lo == contextDict[j].bounds[1]
           hi == contextDict[j].bounds[2]
           valid == ValidInterval(wrapperList[contextDict[j].context])
       IN  /\ Len(contextDict[j].bounds) = 2
           /\ lo <= hi
           /\ valid[1] <= lo /\ hi <= valid[2]
           /\ dictFrom <= lo /\ hi <= dictTo
  /\ \A j, k \in DOMAIN contextDict : j < k =>
       /\ contextDict[j].bounds[2] < contextDict[k].bounds[1]
       /\ contextDict[j].context < contextDict[k].context

\* the request is answered with two spans or more, one of them starting
\* after the first year of its context because the span before it took the
\* years they have in common
C18_Witness ==
  /\ spc = "answered" /\ answer = "200"
  /\ Len(contextDict) >= 2
  /\ \E j \in DOMAIN contextDict :
       /\ j > 1
       /\ contextDict[j].bounds[1] >
            ValidInterval(wrapperList[contextDict[j].context])[1]
       /\ contextDict[j].bounds[1] = contextDict[j - 1].bounds[2] + 1

\* the year lies in the valid interval of a context of the wrapper list
Covered(y) ==
  \E j \in DOMAIN wrapperList : y \in YearsOf(ValidInterval(wrapperList[j]))

\* the spans of contextDict that contain the year
SpansWith(y) ==
  {j \in DOMAIN contextDict : y \in YearsOf(contextDict[j].bounds)}

\* processRequest has returned the list of a request with from <= to
Resolved == spc = "answered" /\ answer = "200"

\* C19, as claimed: for every request with from <= to and every wrapper list,
\* every year of [from, to] that lies in the valid interval of a context of
\* the list is in exactly one span.
C19_EveryCoveredYearResolved ==
  Resolved =>
    \A y \in dictFrom..dictTo : Covered(y) => Cardinality(SpansWith(y)) = 1

\* the order of the wrapper list does not hide a year: a year before the
\* valid interval of a context that a context listed after it covers is
\* also covered by a context listed before it
ListedInOrder ==
  \A j, k \in DOMAIN wrapperList : j < k =>
    \A y \in YearsOf(ValidInterval(wrapperList[k])) :
      y < ValidInterval(wrapperList[j])[1] =>
        \E m \in 1..(j - 1) : y \in YearsOf(ValidInterval(wrapperList[m]))

\* C19, amended: for every request with from <= to and every wrapper list
\* whose order does not hide a year (as a list in ascending order of years,
\* and the lists of the server), every year of [from, to] that lies in the
\* valid interval of a context of the list is in exactly one span, and a
\* year that no context covers is in none.
C19_CoveredYearsResolvedInOrder ==
  (Resolved /\ ListedInOrder) =>
    \A y \in dictFrom..dictTo :
      Cardinality(SpansWith(y)) = IF Covered(y) THEN 1 ELSE 0

\* a request is answered with two spans or more from a list in which a
\* later context starts before an earlier one without hiding a year, and a
\* year of the request that no context covers is missing
C19_Witness ==
  /\ Resolved /\ ListedInOrder
  /\ Len(contextDict) >= 2
  /\ \E j, k \in DOMAIN wrapperList :
       j < k /\ ValidInterval(wrapperList[k])[1] < ValidInterval(wrapperList[j])[1]
  /\ \E y \in dictFrom..dictTo : ~Covered(y)

EpochsValid ==
  /\ Len(wrapperList) = Len(EpochIntervals)
  /\ \A j \in DOMAIN wrapperList :
       ValidInterval(wrapperList[j]) = EpochIntervals[j]

\* the request from 1965 to 1995 over the three epochs has been resolved
Resolved1965To1995 ==
  Resolved /\ EpochsValid /\ dictFrom = 1965 /\ dictTo = 1995

\* the years of all the spans of contextDict
ResolvedYears == UNION {YearsOf(contextDict[j].bounds) : j \in DOMAIN contextDict}

\* C21, as claimed: with the epochs [1941,1970], [1951,1980], [1981,2010] in
\* that order, the request from 1965 to 1995 resolves to exactly two spans,
\* the first starting at 1965 and the second ending at 1995, which together
\* cover exactly 1965..1995.
C21_TwoSpans ==
  Resolved1965To1995 =>
    /\ Len(contextDict) = 2
    /\ contextDict[1].bounds[1] = 1965
    /\ contextDict[2].bounds[2] = 1995
    /\ ResolvedYears = 1965..1995

\* C21, amended: with the same epochs, the request from 1965 to 1995 resolves
\* to exactly three spans, [1965,1970] on the first epoch, [1971,1980] on the
\* second and [1981,1995] on the third, which together cover exactly
\* 1965..1995.
C21_ThreeSpans ==
  Resolved1965To1995 =>
    /\ contextDict = << [context |-> 1, bounds |-> <<1965, 1970>>],
                        [context |-> 2, bounds |-> <<1971, 1980>>],
                        [context |-> 3, bounds |-> <<1981, 1995>>] >>
    /\ ResolvedYears = 1965..1995

\* the request from 1965 to 1995 has been resolved over the three epochs,
\* the first two of them daily databases asked for as observations
C21_Witness ==
  /\ Resolved1965To1995
  /\ source = "FromObservation"
  /\ wrapperList[1].daily # None /\ wrapperList[2].daily # None
  /\ Len(contextDict) = 3

\* C22: with the epochs [1941,1970], [1951,1980], [1981,2010] in that order,
\* the request from 1995 to 2005 resolves to exactly one span, on the third
\* epoch, with bounds [1995,2005].
C22_OneSpan ==
  (Resolved /\ EpochsValid /\ dictFrom = 1995 /\ dictTo = 2005) =>
    contextDict = << [context |-> 3, bounds |-> <<1995, 2005>>] >>

\* the request from 1995 to 2005 has been resolved over the three epochs,
\* all of them daily databases asked for as observations
C22_Witness ==
  /\ Resolved /\ EpochsValid /\ dictFrom = 1995 /\ dictTo = 2005
  /\ source = "FromObservation"
  /\ \A j \in DOMAIN wrapperList : wrapperList[j].daily # None
  /\ Len(contextDict) = 1

(* ------------------ claims on the single-instance mode ----------------- *)
\* C23: in single-instance mode a failure of the engine for one location
\* gives an error-status result for that location only: no batch is left
\* before its last location, and the results a batch has so far are those of
\* its first locations, in order.
C23_FailureDoesNotAbortBatch ==
  \A t \in Threads :
    /\ pc[t] # "raised"
    /\ Len(teleIODictList[t]) = i[t]
    /\ \A j \in DOMAIN teleIODictList[t] :
         teleIODictList[t][j].request = parseRequest(t, j - 1)

(* -------------------- claims on the pooled Model handle ---------------- *)
\* C24: when the engine of a worker of the pool fails to initialize at
\* startup the constructor fails: a handle whose constructor has returned
\* has no worker whose engine failed to initialize.
C24_NoServiceWithoutInitialization ==
  modelPc \in InService =>
    \A w \in Workers : jobMsg[w] # "InitError"

\* the three values of the metadata of worker 0, in the order of do_job
MetadataOfWorker0 ==
  << Metadata("GetWeatherVariablesNeeded", 0),
     Metadata("GetDefaultParameters", 0),
     Metadata("Help", 0) >>

\* C25: in a pooled model handle, worker 0 puts the required input
\* variables, the default parameters and the help exactly once each, in that
\* order, before it takes any sub-request, and no other worker puts
\* metadata; the three values the constructor reads from the completion
\* queue are these three, in that order.
C25_MetadataOnceInOrder ==
  /\ Len(putHistory) <= 3
  /\ putHistory = SubSeq(MetadataOfWorker0, 1, Len(putHistory))
  /\ jobPc[0] \in {"get", "Execute"} => putHistory = MetadataOfWorker0
  /\ modelPc \in {"defaultParameters", "help"} \cup InService =>
       climateVariableNeeded = MetadataOfWorker0[1]
  /\ modelPc \in {"help"} \cup InService =>
       defaultParameters = MetadataOfWorker0[2]
  /\ modelPc \in InService => help = MetadataOfWorker0[3]

\* the constructor has returned with the three values and the model is
\* processing a batch: worker 0 and another worker are both executing tasks
C25_Witness ==
  /\ modelPc = "get"
  /\ help = MetadataOfWorker0[3]
  /\ jobPc[0] = "Execute"
  /\ \E w \in Workers : w # 0 /\ jobPc[w] = "Execute"

(* ------------------ claims on the merge of span results ---------------- *)
\* the merged object of location j, and the object of the list added last
Merged(j) == heap[selfList[j]]
Added(j) == heap[wgl[j]]

\* a step that merges the list of a later span into the list without raising
MergeStep ==
  /\ apc = "loop" /\ apc' = "loop"
  /\ nbSpans >= 1 /\ nbSpans' = nbSpans + 1

\* the lines of every replication r of a merged object are lines of
\* replication r, in ascending order of spans
C26_State ==
  \A j \in DOMAIN selfList :
    \A r \in DOMAIN Merged(j).replist :
      LET rep == Merged(j).replist[r]
      IN  /\ \A k \in DOMAIN rep : rep[k].rep = r
          /\ \A k, m \in DOMAIN rep : k < m => rep[k].span < rep[m].span

\* a merge appends replication r of the new span to replication r of the
\* merged object, for every r, and changes nothing else
C26_Step ==
  MergeStep =>
    \A j \in DOMAIN selfList :
      /\ DOMAIN Merged(j).replist' = DOMAIN Merged(j).replist
      /\ DOMAIN Added(j).replist' = DOMAIN Merged(j).replist
      /\ \A r \in DOMAIN Merged(j).replist :
           Merged(j).replist'[r] = Merged(j).replist[r] \o Added(j).replist'[r]

\* C26: merging keeps replicates grouped: after the results of the spans of
\* one location are merged in span order, replicate r of the merged series
\* is replicate r of span 1 followed by replicate r of span 2 and so on, and
\* contains no line of any other replicate.
C26_ReplicatesStayGrouped == []C26_State /\ [][C26_Step]_vars

\* three spans with two replications each have been merged for a location
C26_Witness ==
  /\ apc = "loop" /\ nbSpans = 3
  /\ \E j \in DOMAIN selfList :
       Merged(j).replist = << <<Line(1, 1), Line(2, 1), Line(3, 1)>>,
                              <<Line(1, 2), Line(2, 2), Line(3, 2)>> >>

\* a step that adds the list of a later span to the list, raising or not
AddStep ==
  /\ apc = "loop"
  /\ nbSpans >= 1 /\ nbSpans' = nbSpans + 1

\* C27: merging two results for the same location whose replicate counts
\* differ fails with an error raised to the route, and appends nothing to
\* the series of that location.
C27_Step ==
  AddStep =>
    \A j \in DOMAIN selfList :
      Len(Merged(j).replist) # Len(Added(j).replist') =>
        /\ apc' = "raised"
        /\ Merged(j)' = Merged(j)

C27_ReplicateCountsMustAgree == [][C27_Step]_vars

\* add has raised for a location whose merged result and new result are
\* both successes, with different numbers of replications
C27_Witness ==
  /\ apc = "raised"
  /\ \E j \in DOMAIN selfList :
       /\ Merged(j).msg = "Success" /\ Added(j).msg = "Success"
       /\ Len(Merged(j).replist) # Len(Added(j).replist)
       /\ Merged(j).replist[1] # <<>>

\* C28: merging two results for the same location whose header field lists
\* differ fails with an error raised to the route: the data of two
\* successful results with different headers are never concatenated into one
\* series.
C28_Step ==
  AddStep =>
    \A j \in DOMAIN selfList :
      ( /\ Merged(j).msg = "Success" /\ Added(j).msg' = "Success"
        /\ Merged(j).header # Added(j).header' ) =>
        /\ apc' = "raised"
        /\ Merged(j)' = Merged(j)

C28_HeadersMustAgree == [][C28_Step]_vars

\* C29: when the result of a span for a location has a status other than
\* Success, merging for that location stops there: from then on the merged
\* result is exactly that status message, and no data of that span or of a
\* later span is appended.
C29_Step ==
  AddStep =>
    \A j \in DOMAIN selfList :
      /\ (Merged(j).msg = "Success" /\ Added(j).msg' # "Success") =>
           /\ parseToJSON(Merged(j)') = Message(Added(j).msg')
           /\ Merged(j).replist' = Merged(j).replist
      /\ Merged(j).msg # "Success" =>
           /\ parseToJSON(Merged(j)') = Message(Merged(j).msg)
           /\ Merged(j).replist' = Merged(j).replist

C29_FailedSpanStopsMerging == [][C29_Step]_vars

\* the concatenation of a list of strings, first string first
RECURSIVE Cat(_)
Cat(strings) ==
  IF strings = <<>> THEN <<>> ELSE Head(strings) \o Cat(Tail(strings))

\* the results of m spans for one location merged in one pass: for every
\* replication, the strings of that replication in all the results, in order
OnePass(results) ==
  [r \in DOMAIN results[1].replist |->
     Cat([k \in DOMAIN results |-> results[k].replist[r]])]

\* the successful results of spans 1..m with the header and the number of
\* replications of the merged object of location j
SpanResults(j, m) ==
  [k \in 1..m |->
     NewTeleIODict("Success", Merged(j).header, Len(Merged(j).replist), k)]

\* C30: merging is associative over well-formed inputs: for results A, B, C,
\* D of the spans of one location with identical headers and replicate
\* counts, merging A, B, C and then adding D gives the same series as
\* merging A, B, C, D in one pass; so it is after every number of spans.
C30_MergeAssociative ==
  (wellFormed /\ nbSpans >= 1 /\ apc # "raised") =>
    \A j \in DOMAIN selfList :
      Merged(j).replist = OnePass(SpanResults(j, nbSpans))

\* the results A, B, C of three spans were merged and then D was added, for
\* a location with two replications
C30_Witness ==
  /\ wellFormed /\ apc = "loop"
  /\ nbSpans = 4
  /\ \E j \in DOMAIN selfList : Len(Merged(j).replist) = 2

\* C31: a merged series owns its own buffers: no element of the merged list
\* is one of the objects of the list that was added, and an add leaves every
\* object that was the result of a span before it as it was.
C31_State == nbSpans > 0 => Range(selfList) \cap Range(wgl) = {}

C31_Step ==
  AddStep => \A id \in DOMAIN heap : heap'[id] = heap[id]

C31_MergedOwnsItsBuffers == []C31_State /\ [][C31_Step]_vars

\* C32: after the construction of a pooled handle, self.processes,
\* self.tasksToDo and self.tasksDone are written only while the lock of the
\* handle is held, and whenever the lock is free the three refer to the same
\* pool generation.
C32_State == lock = Free => (processes = tasksToDo /\ tasksToDo = tasksDone)

C32_Step ==
  (processes' # processes \/ tasksToDo' # tasksToDo \/ tasksDone' # tasksDone)
    => (lock # Free /\ lock' = lock)

C32_ReferencesWrittenUnderLock == []C32_State /\ [][C32_Step]_vars

\* respawn has swapped the three references and released the lock, and a
\* thread has taken the lock and sent a batch to the replacement pool
C32_Witness ==
  /\ rpc = "terminate"
  /\ processes = 1 /\ tasksToDo = 1 /\ tasksDone = 1
  /\ \E t \in Threads : lock = t /\ pc[t] = "get" /\ acqPool[t] = 1

\* C33: when respawn terminates the workers of the old pool, the old submit
\* queue holds no sub-request, no old worker holds one, and no batch waits
\* for a reply of the old pool: the rotation discards no submitted work.
C33_RotationDiscardsNoWork ==
  rpc = "terminate" =>
    /\ todo[formerProcesses] = <<>>
    /\ Owners(formerProcesses) = {}
    /\ \A w \in Workers : wstate[formerProcesses][w] # "working"
    /\ \A t \in Threads : InFlight(t) => acqPool[t] # formerProcesses

\* respawn has terminated the first worker of the old pool and not yet the
\* second one, while a batch waits for the replies of the replacement pool
C33_Witness ==
  /\ rpc = "terminate"
  /\ wstate[formerProcesses][0] = "terminated"
  /\ wstate[formerProcesses][1] = "waiting"
  /\ \E t \in Threads :
       /\ pc[t] = "get" /\ acqPool[t] = processes
       /\ \E w \in Workers : wstate[processes][w] = "working"

\* the thread has called doProcess and waits in lock.acquire() for a lock
\* that another thread holds
WaitingBatch(t) == pc[t] = "acquire" /\ lock # Free

\* every batch that took the lock gets its n replies and releases the lock,
\* and respawn releases the lock it took
BatchesComplete ==
  /\ \A t \in Threads :
       (pc[t] = "put") ~>
         (pc[t] = "release" /\ DOMAIN mainDict[t] = 0..(n[t] - 1))
  /\ \A t \in Threads : (lock = t) ~> (lock # t)
  /\ (lock = Updater) ~> (lock = Free)

\* C34: if every worker is scheduled fairly and no engine call raises, every
\* batch submitted to a pooled handle eventually receives all its replies
\* and releases the lock, so every waiting batch and every waiting rotation
\* eventually proceeds.
C34_EveryWaiterProceeds ==
  /\ BatchesComplete
  /\ \A t \in Threads : WaitingBatch(t) ~> (pc[t] = "put")
  /\ (rpc = "acquire") ~> (rpc = "swapProcesses")

\* C34, amended: every batch that took the lock receives all its replies
\* before it releases the lock and does release it, respawn releases the
\* lock it took, and so the lock is free again and again; no batch and no
\* rotation waits for the lock for ever if the lock is not handed to others
\* for ever each time it is free (strong fairness of its acquisition).
C34_WaitersProceedWithFairLock ==
  /\ [](\A t \in Threads :
         /\ InFlight(t) => lock = t
         /\ pc[t] = "release" => DOMAIN mainDict[t] = 0..(n[t] - 1))
  /\ \A t \in Threads : []<>(~InFlight(t))
  /\ []<>(lock = Free)
  /\ SF_vars(respawn_acquire) => []<>(rpc # "acquire")
  /\ \A t \in Threads :
       SF_vars(doProcess_acquire(t)) => []<>(pc[t] # "acquire")

\* a thread and the rotation wait for the lock while a batch larger than the
\* pool collects its replies
C34_Witness ==
  /\ rpc = "acquire"
  /\ \E t, u \in Threads :
       /\ t # u /\ WaitingBatch(u)
       /\ lock = t /\ pc[t] = "get" /\ n[t] > NbProcesses

\* C35: on a single-instance handle, a batch that runs while respawn
\* replaces self.WG is served by one engine instance for all its locations.
C35_OneInstancePerBatch ==
  \A t \in Threads :
    \A j, k \in DOMAIN teleIODictList[t] :
      teleIODictList[t][j].instance = teleIODictList[t][k].instance

\* the last answer of the updater process was not "done"
DownloadFailed == result \notin {"", "done"}

\* C36: the daily updater toggles the current daily folder and respawns the
\* pool of the newest observed epoch only after the updater process
\* answered "done"; on any other answer it neither toggles nor respawns and
\* keeps currentDay, so that the update is attempted again at the next
\* check; and the download always targets the folder that is not the
\* current one.
C36_State ==
  /\ upc = "respawn" => result = "done"
  /\ (upc = "sleep" /\ DownloadFailed) => currentDay # clockDay
  /\ ppc = "download" => dailyFolder # currentDaily
  /\ \A k \in DOMAIN updToDo : updToDo[k] # currentDaily
  /\ getPath(respawnTarget) = currentDaily
  /\ \A k \in DOMAIN listWrapper :
       respawnTarget.finalDateYr >= listWrapper[k].finalDateYr

C36_Step ==
  /\ (currentDaily' # currentDaily) =>
       (upc = "get" /\ updDone # <<>> /\ Head(updDone) = "done")
  /\ (processes' # processes) =>
       (upc = "respawn" /\ result = "done")
  /\ (upc = "get" /\ upc' # upc /\ result' # "done") =>
       /\ upc' = "sleep"
       /\ currentDaily' = currentDaily
       /\ currentDay' = currentDay
       /\ processes' = processes
  /\ (upc = "sleep" /\ DownloadFailed /\ newCurrentDay' = clockDay
        /\ updToDo' # updToDo) =>
       (upc' = "get"
          /\ updToDo' = Append(updToDo, getAlternativeCurrentDaily(currentDaily)))

C36_ToggleAndRespawnOnlyAfterDone == []C36_State /\ [][C36_Step]_vars

\* after an update that succeeded, the download of a later day failed and
\* is under way again, into the folder that is not the current one
C36_Witness ==
  /\ processes = 1 /\ currentDaily = "DailyLatestAlt"
  /\ DownloadFailed /\ upc = "get"
  /\ ppc = "download" /\ dailyFolder = "DailyLatest"

\* C37: a rotation that fails (respawn raises) does not stop the daily
\* thread: the thread keeps running and attempts the rotation again at a
\* later check.
C37_FailedRotationIsRetried == upc # "exited"

(* ------------------- claims on the catalog of the server --------------- *)
\* C38: with the wrapper list the server gives for the observed source and
\* any RCP and climate model a request can select, every request with
\* 1900 <= from <= to <= 2100 that is answered has spans that cover
\* [from, to] exactly: the first span starts at from, the last one ends at
\* to, every span has lo <= hi and starts the year after the span before it
\* ends.
C38_CatalogCoversEveryYear ==
  (/\ Resolved
   /\ source = "FromObservation"
   /\ 1900 <= dictFrom /\ dictTo <= 2100) =>
    /\ Len(contextDict) > 0
    /\ contextDict[1].bounds[1] = dictFrom
    /\ contextDict[Len(contextDict)].bounds[2] = dictTo
    /\ \A j \in DOMAIN contextDict :
         /\ contextDict[j].bounds[1] <= contextDict[j].bounds[2]
         /\ j > 1 => contextDict[j].bounds[1] = contextDict[j - 1].bounds[2] + 1

\* the request from 1900 to 2100 for observations under RCP 8.5 with the
\* model GCM4 has been answered with eleven spans: the four daily
\* databases, then the normals of the model from those of 2021-2030 on, the
\* first of them from 2022
C38_Witness ==
  /\ Resolved
  /\ source = "FromObservation"
  /\ dictFrom = 1900 /\ dictTo = 2100
  /\ wrapperList[Len(wrapperList)].rcp = "RCP85"
  /\ wrapperList[Len(wrapperList)].climMod = "GCM4"
  /\ Len(contextDict) = 11
  /\ \A j \in 1..4 : wrapperList[contextDict[j].context].daily # None
  /\ contextDict[5].bounds = <<2022, 2030>>

(* ---------------- claims on the routes of the ephemeral mode ----------- *)
\* the thread enters or leaves the route biosimModelEphemeral
EphemeralStep(t) ==
  cpc'[t] # cpc[t] /\ (cpc[t] = "ephemeral" \/ cpc'[t] = "ephemeral")

\* the thread is inside registerTeleIODictList for the route biosimWG
Registering(t) == cpc[t] \in {"register_loop", "register_setitem"}

\* the smaller of two numbers
Smaller(a, b) == IF a <= b THEN a ELSE b

\* a registration has stored one entry for each location it has gone
\* through, and the latest of them are the last entries of the library, in
\* the order of the locations
C39_State ==
  \A t \in Threads : Registering(t) =>
    /\ Len(outputStr[t]) = regI[t]
    /\ regI[t] <= selfLen[t]
    /\ \A j, k \in DOMAIN outputStr[t] :
         j # k => outputStr[t][j] # outputStr[t][k]
    /\ LET m == Smaller(regI[t], Len(library))
       IN  \A j \in 1..m :
             library[Len(library) - m + j] =
               [key |-> outputStr[t][regI[t] - m + j],
                obj |-> TeleIODict(regI[t] - m + j - 1)]

\* a step of the ephemeral route leaves the library, its order, the history
\* of its keys, the ticket number and the lock as they are; a step that
\* stores the entry of a location adds exactly that entry, under a key that
\* was not in the library, after the entries that were there; a registration
\* returns only when it has gone through all its locations
C39_Step ==
  \A t \in Threads :
    /\ EphemeralStep(t) =>
         /\ library' = library
         /\ recency' = recency
         /\ ticketNumber' = ticketNumber
         /\ libraryLock' = libraryLock
         /\ issued' = issued
    /\ SetitemStep(t) =>
         /\ ~contains(library, key[t])
         /\ library' =
              Append(library, [key |-> key[t], obj |-> TeleIODict(regI[t])])
    /\ (Registering(t) /\ cpc'[t] = "idle") =>
         /\ regI[t] = selfLen[t]
         /\ Len(outputStr[t]) = selfLen[t]

=============================================================================
